---- MODULE Spec2Model ----
(***************************************************************************)
(* Recipe Robot: recipe_generator.py and recipe.py as a state machine.     *)
(*                                                                         *)
(* Python strings are sequences of tokens (a placeholder such as           *)
(* "%version%" is one token, a space is the token " "), so that            *)
(* concatenation, "%s" formatting and str.replace are computed and not     *)
(* assumed.  Python dicts (facts, prefs, a recipe, its keys, a step's      *)
(* Arguments) are functions whose DOMAIN is the set of keys present; a     *)
(* nested dict inside Arguments or Input is flattened with dotted keys.    *)
(* A raised exception ends the run with its kind in err and leaves every   *)
(* mutation made before the raise in place.                                *)
(***************************************************************************)
EXTENDS Integers, Sequences, FiniteSets, TLC

VARIABLES
    entry,      \* the function of the module that was called
    pc,         \* position inside that call
    err,        \* "none", or the kind of the exception that ended the call
    facts,      \* the facts dict, facts["warnings"] and facts["reminders"] included
    prefs,      \* the prefs dict
    recipes,    \* the Recipe objects of facts["recipes"], by type
    paths,      \* the dest_path strings build_recipes appends to facts["recipes"]
    preferred,  \* the list generate_recipes / build_recipes iterates (recipe types)
    idx,        \* index into preferred of the next loop iteration
    calls,      \* history: one record per loop iteration or direct rule call
    input,      \* the facts, prefs and recipes the call started from
    run,        \* the engine run in progress: 1, or 2 for the run started again
    first       \* Identifier and Process of every recipe at the end of run 1

vars == <<entry, pc, err, facts, prefs, recipes, paths, preferred, idx, calls,
          input, run, first>>

----------------------------------------------------------------------------
(* Bounds of the model.                                                    *)

\* app names have 1..MaxNameWords words separated by single spaces
MaxNameWords == 2
\* codesign_authorities and blocking_applications hold at most this many entries
MaxListLen == 1

----------------------------------------------------------------------------
(* Dict helpers.                                                           *)

Has(d, k) == k \in DOMAIN d

\* d[k] = v, adding the key when it is missing
Put(d, k, v) == [x \in DOMAIN d \cup {k} |-> IF x = k THEN v ELSE d[x]]

\* dict.get(k, default)
Get(d, k, default) == IF k \in DOMAIN d THEN d[k] ELSE default

\* str.replace(old, new) for a one-token old; new is a token sequence
RECURSIVE Replace(_, _, _)
Replace(s, old, new) ==
    IF s = <<>> THEN <<>>
    ELSE (IF Head(s) = old THEN new ELSE <<Head(s)>>) \o Replace(Tail(s), old, new)

\* the elements of list l that are in keep, in order (a list comprehension)
RECURSIVE Filter(_, _)
Filter(l, keep) ==
    IF l = <<>> THEN <<>>
    ELSE (IF Head(l) \in keep THEN <<Head(l)>> ELSE <<>>) \o Filter(Tail(l), keep)

----------------------------------------------------------------------------
(* recipe.py                                                               *)

\* Recipes.__init__: recipes_meta, in catalog order
recipes_meta ==
    <<"download", "munki", "pkg", "install", "jss", "absolute", "sccm", "ds",
      "filewave">>

Types == {recipes_meta[i] : i \in 1..Len(recipes_meta)}

\* Recipe.__init__
Recipe(recipe_type) ==
    [type      |-> recipe_type,
     preferred |-> TRUE,
     existing  |-> FALSE,
     keys      |-> [Identifier     |-> <<>>,
                    MinimumVersion |-> <<"0.5.0">>,
                    Input          |-> [NAME |-> <<>>],
                    Process        |-> <<>>,
                    Comment        |-> <<"Created with Recipe Robot">>]]

\* Recipe.write: whether a document is written to the path
Recipe_write(recipe) == Len(recipe["keys"]["Process"]) > 0

\* Recipes(): one Recipe per catalog entry
Recipes == [t \in Types |-> Recipe(t)]

----------------------------------------------------------------------------
(* tools.py constants imported by recipe_generator.py                       *)

SUPPORTED_IMAGE_FORMATS == {"dmg"}
SUPPORTED_ARCHIVE_FORMATS == {"zip"}
SUPPORTED_INSTALL_FORMATS == {"pkg"}

----------------------------------------------------------------------------
(* Exceptions.                                                             *)

MissingAppName == "RoboError: I wasn't able to determine the name of this app"
NoPreferredRecipes == "RoboError: Sorry, no recipes available to generate."
NoDownloadMethod == "RoboError: Sorry, I don't know how to download this app."
UnknownDownloadFormat == "RoboError: Sorry, I can't tell what format to download this app in."
KeyError == "KeyError"
TypeError == "TypeError"

PreflightErrors ==
    {MissingAppName, NoPreferredRecipes, NoDownloadMethod, UnknownDownloadFormat}

----------------------------------------------------------------------------
(* generate_recipes: preflight.                                            *)

\* the download-source keys tested at lines 113-115
SourceKeys == {"sparkle_feed", "github_repo", "sourceforge_id", "download_url"}

\* a variant that tests the download format before the download source
raise_if_format_checked_first(f, pref) ==
    IF pref = <<>> THEN NoPreferredRecipes
    ELSE IF f["is_from_app_store"] = FALSE /\ ~Has(f, "download_format")
         THEN UnknownDownloadFormat
    ELSE IF f["is_from_app_store"] = FALSE
            /\ ~(\E key \in SourceKeys : Has(f, key))
         THEN NoDownloadMethod
    ELSE "none"

\* raise_if_recipes_cannot_be_generated: the error raised, or "none"
raise_if_recipes_cannot_be_generated(f, pref) ==
    IF pref = <<>> THEN NoPreferredRecipes
    ELSE IF f["is_from_app_store"] = FALSE
            /\ ~(\E key \in SourceKeys : Has(f, key))
         THEN NoDownloadMethod
    ELSE IF f["is_from_app_store"] = FALSE /\ ~Has(f, "download_format")
         THEN UnknownDownloadFormat
    ELSE "none"

\* preferred = [recipe for recipe in recipes if recipe["preferred"]]
PreferredOf(rs) == Filter(recipes_meta, {t \in Types : rs[t]["preferred"]})

\* a variant that builds the preferred list without testing "app_name" first
preflight_without_name_check(f, rs) ==
    raise_if_recipes_cannot_be_generated(f, PreferredOf(rs))

\* lines 57-66: the error that ends generate_recipes before line 68, or "none"
preflight(f, rs) ==
    IF ~Has(f, "app_name") THEN MissingAppName
    ELSE raise_if_recipes_cannot_be_generated(f, PreferredOf(rs))

CodesignReminder == <<"I can't tell whether this app is codesigned or not">>
VersionKeyReminder == <<"I can't tell whether to use CFBundleShortVersionString or CFBundleVersion">>

\* a variant that replaces the list by the new message
AppendTo_overwriting(f, key, msg) == [f EXCEPT ![key] = <<msg>>]

\* facts[key].append(msg), key being "warnings" or "reminders"
AppendTo(f, key, msg) == [f EXCEPT ![key] = Append(@, msg)]

\* lines 70-76
DefaultCodesign(f) ==
    IF ~Has(f, "codesign_reqs") /\ ~Has(f, "codesign_authorities")
    THEN Put(Put(AppendTo(f, "reminders", CodesignReminder),
                 "codesign_reqs", <<>>), "codesign_authorities", <<>>)
    ELSE f

\* lines 77-83
DefaultVersionKey(f) ==
    IF ~Has(f, "version_key")
    THEN Put(AppendTo(f, "reminders", VersionKeyReminder),
             "version_key", "CFBundleShortVersionString")
    ELSE f

\* lines 91-95: os.path.join(expanduser(RecipeCreateLocation), <dir>)
RecipeDestDir(f, p) ==
    IF Has(f, "developer") /\ Get(p, "FollowOfficialJSSRecipesFormat", FALSE) # TRUE
    THEN p["RecipeCreateLocation"] \o <<"/">> \o Replace(f["developer"], "/", <<"-">>)
    ELSE p["RecipeCreateLocation"] \o <<"/">> \o Replace(f["app_name"], "/", <<"-">>)

\* lines 68-96: the facts after the defaults and the destination directory
AfterPreflight(f, p) ==
    LET f1 == DefaultVersionKey(DefaultCodesign(f))
    IN  Put(f1, "recipe_dest_dir", RecipeDestDir(f1, p))

----------------------------------------------------------------------------
(* Execution of one generation function: the facts and the recipe it       *)
(* mutates, the exception it raised (X) and whether it has returned.       *)

Start(f, recipe) == [F |-> f, R |-> recipe, X |-> "none", ret |-> FALSE]

\* the function is still executing statements
Live(s) == s.X = "none" /\ ~s.ret

Raise(s, e) == IF Live(s) THEN [s EXCEPT !.X = e] ELSE s

\* a bare return statement
Return(s) == IF Live(s) THEN [s EXCEPT !.ret = TRUE] ELSE s

\* facts[k] with k missing raises KeyError
Need(s, k) == IF Live(s) /\ ~Has(s.F, k) THEN Raise(s, KeyError) ELSE s

\* facts["warnings"].append(msg)
Warn(s, msg) == IF Live(s) THEN [s EXCEPT !.F = AppendTo(@, "warnings", msg)] ELSE s

\* facts["reminders"].append(msg)
Remind(s, msg) == IF Live(s) THEN [s EXCEPT !.F = AppendTo(@, "reminders", msg)] ELSE s

\* a variant that returns after the reminder
RemindAndReturnUnless(s, q, msg) == IF q THEN s ELSE Return(Remind(s, msg))

\* if not <external query>: facts["reminders"].append(msg)
\* (q is the answer of the query: lines 825-828, 911-915, 962-966, 1038-1042)
RemindUnless(s, q, msg) == IF q THEN s ELSE Remind(s, msg)

\* keys[k] = v
SetKey(s, k, v) ==
    IF Live(s) THEN [s EXCEPT !.R = [@ EXCEPT !["keys"] = Put(@, k, v)]] ELSE s

\* keys["Input"][k] = v
SetInput(s, k, v) ==
    IF Live(s)
    THEN [s EXCEPT !.R = [@ EXCEPT !["keys"] = [@ EXCEPT !["Input"] = Put(@, k, v)]]]
    ELSE s

\* keys["Process"].append(step)
AddStep(s, step) ==
    IF Live(s)
    THEN [s EXCEPT !.R = [@ EXCEPT !["keys"] = [@ EXCEPT !["Process"] = Append(@, step)]]]
    ELSE s

\* {"Processor": name, "Arguments": args}
Processor(name, args) == [Processor |-> name, Arguments |-> args]

\* facts.get("codesign_reqs", "") != ""
HasCodesignReqs(f) == Get(f, "codesign_reqs", <<>>) # <<>>

\* facts.get("sparkle_provides_version", False) is False
NoSparkleVersion(f) == Get(f, "sparkle_provides_version", FALSE) = FALSE

----------------------------------------------------------------------------
(* Messages appended to facts["warnings"] and facts["reminders"].          *)

SkipAppStoreWarning(t) ==
    <<"Skipping ", t, " recipe, because this app was downloaded from the App Store.">>
SkipBundleIdWarning(t) ==
    <<"Skipping ", t, " recipe, because I wasn't able to determine the bundle identifier of this app.">>
NoFuncWarning(t) ==
    <<"Oops, I think my programmer messed up. I don't yet know how to generate a ", t, " recipe.">>
DescriptionReminder == <<"I couldn't find a description for this app">>
IconWarning == <<"I don't have enough information to create a PNG icon for this app.">>
PkgAlreadyWarning == <<"Skipping pkg recipe, since the download format is already pkg.">>
FilewavePkgWarning == <<"Sorry, I don't yet know how to create filewave recipes from pkg downloads.">>
CategoryReminder == <<"Remember to manually set the category in the jss recipe.">>
PngReminder(name) == <<"Please make sure ">> \o name \o <<".png is in your AutoPkg search path.">>
AbsoluteRepoReminder == <<"You'll need to add the AbsoluteManageExport repo">>
SccmRepoReminder == <<"You'll need to add the cgerke-recipes repo">>
FilewaveRepoReminder == <<"You'll need to add the FileWaveImporter repo">>
AppStoreReminder == <<"I've created at least one AppStoreApp override for you.">>

----------------------------------------------------------------------------
(* Steps shared by several generation functions.                           *)

CacheApplications == <<"%RECIPE_CACHE_DIR%", "/", "%NAME%", "/Applications">>

UnarchiverStep ==
    Processor("Unarchiver",
              [archive_path      |-> <<"%pathname%">>,
               destination_path  |-> CacheApplications,
               purge_destination |-> <<"True">>])

AppDmgVersionerStep == Processor("AppDmgVersioner", [dmg_path |-> <<"%pathname%">>])

\* Versioner on the app inside the mounted image
DmgVersionerStep(f) ==
    Processor("Versioner",
              [input_plist_path  |-> <<"%pathname%", "/", f["app_name_key"],
                                       ".app/Contents/Info.plist">>,
               plist_version_key |-> <<f["version_key"]>>])

\* Versioner on the unarchived app
ZipVersionerStep(f) ==
    Processor("Versioner",
              [input_plist_path  |-> CacheApplications
                                       \o <<"/", f["app_name_key"], ".app/Contents/Info.plist">>,
               plist_version_key |-> <<f["version_key"]>>])

DmgCreatorStep ==
    Processor("DmgCreator",
              [dmg_path |-> <<"%RECIPE_CACHE_DIR%", "/", "%NAME%", ".dmg">>,
               dmg_root |-> CacheApplications])

\* "%s.<type>.%s" % (prefs["RecipeIdentifierPrefix"], facts["app_name"].replace(" ", ""))
ParentIdentifier(f, p, t) ==
    p["RecipeIdentifierPrefix"] \o <<".", t, ".">> \o Replace(f["app_name"], " ", <<>>)

\* "%s.<type>.%s" % (prefs["RecipeIdentifierPrefix"], facts["app_name"])
ParentIdentifierRaw(f, p, t) ==
    p["RecipeIdentifierPrefix"] \o <<".", t, ".">> \o f["app_name"]

----------------------------------------------------------------------------
(* generate_download_recipe                                                *)

\* "%%NAME%%-%%version%%.%s" % facts["download_format"]
VersionedFilename(f) == <<"%NAME%", "-", "%version%", ".", f["download_format"]>>

\* lines 212-247 with the URLDownloader step of lines 240-245 in both branches
DownloadSparkle_plain_download(s0) ==
    LET s1 == SetInput(s0, "SPARKLE_FEED_URL", s0.F["sparkle_feed"])
        s2 == AddStep(s1,
                  Processor("SparkleUpdateInfoProvider",
                      IF Has(s1.F, "user-agent")
                      THEN ("appcast_request_headers.user-agent" :> s1.F["user-agent"])
                           @@ [appcast_url |-> <<"%SPARKLE_FEED_URL%">>]
                      ELSE [appcast_url |-> <<"%SPARKLE_FEED_URL%">>]))
        s3 == Need(s2, "download_format")
    IN  AddStep(s3, Processor("URLDownloader", [filename |-> VersionedFilename(s3.F)]))

\* lines 212-247
DownloadSparkle(s0) ==
    LET s1 == SetInput(s0, "SPARKLE_FEED_URL", s0.F["sparkle_feed"])
        ua == Has(s1.F, "user-agent")
        s2 == AddStep(s1,
                  Processor("SparkleUpdateInfoProvider",
                      IF ua
                      THEN ("appcast_request_headers.user-agent" :> s1.F["user-agent"])
                           @@ [appcast_url |-> <<"%SPARKLE_FEED_URL%">>]
                      ELSE [appcast_url |-> <<"%SPARKLE_FEED_URL%">>]))
        s3 == Need(s2, "download_format")
    IN  AddStep(s3,
            Processor("URLDownloader",
                IF ua
                THEN ("request_headers.user-agent" :> s3.F["user-agent"])
                     @@ [filename |-> VersionedFilename(s3.F)]
                ELSE [filename |-> VersionedFilename(s3.F)]))

\* lines 249-262
DownloadGitHub(s0) ==
    LET s1 == SetInput(s0, "GITHUB_REPO", s0.F["github_repo"])
        s2 == AddStep(s1, Processor("GitHubReleasesInfoProvider",
                                    [github_repo |-> <<"%GITHUB_REPO%">>]))
        s3 == Need(s2, "download_format")
    IN  AddStep(s3, Processor("URLDownloader", [filename |-> VersionedFilename(s3.F)]))

\* lines 263-280 (create_SourceForgeURLProvider writes a helper file outside the recipe)
DownloadSourceForge(s0) ==
    LET s1 == Need(s0, "download_format")
        s2 == AddStep(s1,
                  Processor("SourceForgeURLProvider",
                      [SOURCEFORGE_FILE_PATTERN |-> <<"\\.", s1.F["download_format"]>>,
                       SOURCEFORGE_PROJECT_ID   |-> s1.F["sourceforge_id"]]))
    IN  AddStep(s2, Processor("URLDownloader",
                              [filename |-> <<"%NAME%", ".", s2.F["download_format"]>>]))

\* lines 281-305 with the branch of lines 296-305 taken whatever the facts
DownloadDirectURL_without_headers(s0) ==
    LET s1 == SetInput(s0, "DOWNLOAD_URL", s0.F["download_url"])
        s2 == Need(s1, "download_filename")
    IN  AddStep(s2,
            Processor("URLDownloader",
                [url |-> <<"%DOWNLOAD_URL%">>, filename |-> s2.F["download_filename"]]))

\* lines 281-305
DownloadDirectURL(s0) ==
    LET s1 == SetInput(s0, "DOWNLOAD_URL", s0.F["download_url"])
        s2 == Need(s1, "download_filename")
    IN  AddStep(s2,
            Processor("URLDownloader",
                IF Has(s2.F, "user-agent")
                THEN ("request_headers.user-agent" :> s2.F["user-agent"])
                     @@ [url |-> <<"%DOWNLOAD_URL%">>, filename |-> s2.F["download_filename"]]
                ELSE [url |-> <<"%DOWNLOAD_URL%">>, filename |-> s2.F["download_filename"]]))

\* lines 212-305 with the tests of lines 212 and 249 exchanged
DownloadSource_github_first(s) ==
    IF ~Live(s) THEN s
    ELSE IF Has(s.F, "github_repo") THEN DownloadGitHub(s)
    ELSE IF Has(s.F, "sparkle_feed") THEN DownloadSparkle(s)
    ELSE IF Has(s.F, "sourceforge_id") THEN DownloadSourceForge(s)
    ELSE IF Has(s.F, "download_url") THEN DownloadDirectURL(s)
    ELSE s

\* lines 212-305: the branch of the first download source present
DownloadSource(s) ==
    IF ~Live(s) THEN s
    ELSE IF Has(s.F, "sparkle_feed") THEN DownloadSparkle(s)
    ELSE IF Has(s.F, "github_repo") THEN DownloadGitHub(s)
    ELSE IF Has(s.F, "sourceforge_id") THEN DownloadSourceForge(s)
    ELSE IF Has(s.F, "download_url") THEN DownloadDirectURL(s)
    ELSE s

\* lines 315-324: the verifier's arguments for an app at appPath
\* (neither branch taken leaves codesigverifier_args unbound; the caller's
\* condition at line 310 excludes that)
CodeSigVerifierArgs(f, appPath) ==
    IF HasCodesignReqs(f)
    THEN [input_path |-> appPath, requirement |-> f["codesign_reqs"]]
    ELSE [input_path |-> appPath, expected_authorities |-> f["codesign_authorities"]]

\* lines 313-346 with the versioner of lines 329-346 appended before the
\* verifier of lines 313-328
DownloadSignedImage_versioner_first(s0) ==
    LET s1 == Need(Need(s0, "app_name_key"), "version_key")
        s2 == IF ~Live(s1) \/ ~NoSparkleVersion(s1.F) THEN s1
              ELSE IF s1.F["version_key"] = "CFBundleShortVersionString"
                   THEN AddStep(s1, AppDmgVersionerStep)
                   ELSE AddStep(s1, DmgVersionerStep(s1.F))
    IN  AddStep(s2,
            Processor("CodeSignatureVerifier",
                CodeSigVerifierArgs(s2.F, <<"%pathname%", "/", s2.F["app_name_key"], ".app">>)))

\* lines 313-346
DownloadSignedImage(s0) ==
    LET s1 == Need(s0, "app_name_key")
        s2 == AddStep(s1,
                  Processor("CodeSignatureVerifier",
                      CodeSigVerifierArgs(s1.F, <<"%pathname%", "/", s1.F["app_name_key"], ".app">>)))
        s3 == Need(s2, "version_key")
    IN  IF ~Live(s2) THEN s2
        ELSE IF ~NoSparkleVersion(s2.F) THEN s2
        ELSE IF ~Live(s3) THEN s3
        ELSE IF s3.F["version_key"] = "CFBundleShortVersionString"
             THEN AddStep(s3, AppDmgVersionerStep)
             ELSE AddStep(s3, DmgVersionerStep(s3.F))

\* lines 347-380
DownloadSignedArchive(s0) ==
    LET s1 == AddStep(s0, UnarchiverStep)
        \* line 357 reads facts["codesign_reqs"] without a default
        s2 == Need(Need(s1, "codesign_reqs"), "app_name_key")
        s3 == AddStep(s2,
                  Processor("CodeSignatureVerifier",
                      CodeSigVerifierArgs(s2.F,
                          CacheApplications \o <<"/", s2.F["app_name_key"], ".app">>)))
        s4 == Need(s3, "version_key")
    IN  IF ~Live(s3) THEN s3
        ELSE IF ~NoSparkleVersion(s3.F) THEN s3
        ELSE AddStep(s4, ZipVersionerStep(s4.F))

\* lines 381-390
DownloadSignedInstaller(s0) ==
    LET s1 == Need(s0, "codesign_authorities")
    IN  AddStep(s1,
            Processor("CodeSignatureVerifier",
                [input_path           |-> <<"%pathname%">>,
                 expected_authorities |-> s1.F["codesign_authorities"]]))

\* lines 310-390
DownloadCodesign(s0) ==
    LET \* line 310: the right operand of "or" is evaluated only when the left is false
        s1 == IF Live(s0) /\ ~HasCodesignReqs(s0.F)
              THEN Need(s0, "codesign_authorities") ELSE s0
        s2 == Need(s1, "download_format")
    IN  IF ~Live(s1) THEN s1
        ELSE IF ~(HasCodesignReqs(s1.F) \/ Len(s1.F["codesign_authorities"]) > 0) THEN s1
        ELSE IF ~Live(s2) THEN s2
        ELSE IF s2.F["download_format"] \in SUPPORTED_IMAGE_FORMATS
             THEN DownloadSignedImage(s2)
        ELSE IF s2.F["download_format"] \in SUPPORTED_ARCHIVE_FORMATS
             THEN DownloadSignedArchive(s2)
        ELSE IF s2.F["download_format"] \in SUPPORTED_INSTALL_FORMATS
             THEN DownloadSignedInstaller(s2)
        ELSE s2

generate_download_recipe(f, p, recipe, q) ==
    LET s0 == Start(f, recipe)
    IN  IF f["is_from_app_store"] = TRUE
        THEN Return(Warn(s0, SkipAppStoreWarning(recipe["type"])))
        ELSE LET s1 == SetKey(s0, "Description",
                              <<"Downloads the latest version of ">> \o f["app_name"]
                                \o <<".">>)
                 s2 == DownloadSource(s1)
                 s3 == AddStep(s2, [Processor |-> "EndOfCheckPhase"])
             IN  DownloadCodesign(s3)

----------------------------------------------------------------------------
(* Statements shared by the munki, pkg, install and filewave functions.    *)

\* recipe["filename"] = v
SetFilename(s, v) == IF Live(s) THEN [s EXCEPT !.R = Put(@, "filename", v)] ELSE s

\* prefs[k] with k missing raises KeyError
NeedPref(s, p, k) == IF Live(s) /\ ~Has(p, k) THEN Raise(s, KeyError) ELSE s

\* evaluation of: facts.get("codesign_reqs", "") == "" and
\*                len(facts["codesign_authorities"]) == 0
\* (the right operand is read only when the left one is true)
ReadUnsigned(s) ==
    IF Live(s) /\ ~HasCodesignReqs(s.F) THEN Need(s, "codesign_authorities") ELSE s

Unsigned(f) == ~HasCodesignReqs(f) /\ Len(f["codesign_authorities"]) = 0

\* the AppDmgVersioner / Versioner choice of lines 481-495, 627-641
ImageVersioner(s0) ==
    LET s1 == Need(s0, "version_key")
        s2 == Need(s1, "app_name_key")
    IN  IF ~Live(s1) THEN s1
        ELSE IF s1.F["version_key"] = "CFBundleShortVersionString"
             THEN AddStep(s1, AppDmgVersionerStep)
             ELSE AddStep(s2, DmgVersionerStep(s2.F))

\* the pkginfo dict and its description, lines 418-433 and 459-474
SetPkginfo(s0) ==
    LET s1 == SetInput(s0, "MUNKI_REPO_SUBDIR", <<"apps/", "%NAME%">>)
        s2 == SetInput(s1, "pkginfo.catalogs", <<"testing">>)
        s3 == SetInput(s2, "pkginfo.developer", Get(s2.F, "developer", <<>>))
        s4 == SetInput(s3, "pkginfo.display_name", s3.F["app_name"])
        s5 == SetInput(s4, "pkginfo.name", <<"%NAME%">>)
        s6 == SetInput(s5, "pkginfo.unattended_install", <<"True">>)
    IN  IF ~Live(s6) THEN s6
        ELSE IF Has(s6.F, "description")
             THEN SetInput(s6, "pkginfo.description", s6.F["description"])
             ELSE SetInput(Remind(s6, DescriptionReminder), "pkginfo.description", <<" ">>)

\* lines 551-561 and 859-869 (extract_app_icon writes a file outside the recipe)
ExtractIcon(s) ==
    IF ~Live(s) THEN s
    ELSE IF Has(s.F, "icon_path") THEN s
    ELSE Warn(s, IconWarning)

\* warn_about_appstoreapp_pyasn without the append of lines 1110-1114
warn_about_appstoreapp_pyasn_silent(s) == s

\* warn_about_appstoreapp_pyasn
warn_about_appstoreapp_pyasn(s) == Remind(s, AppStoreReminder)

----------------------------------------------------------------------------
(* generate_app_store_munki_recipe, generate_munki_recipe                  *)

generate_app_store_munki_recipe(f, p, recipe, q) ==
    LET s0 == Start(f, recipe)
        s1 == SetKey(s0, "Description",
                     <<"Downloads the latest version of ">> \o f["app_name"]
                       \o <<" from the Mac App Store and imports it into Munki.">>)
        s2 == SetKey(s1, "ParentRecipe", <<"com.github.nmcspadden.munki.appstore">>)
        s3 == Need(s2, "app_path")
        s4 == SetInput(s3, "PATH", s3.F["app_path"])
        s5 == SetFilename(s4, <<"MAS-">> \o s4.R["filename"])
    IN  warn_about_appstoreapp_pyasn(SetPkginfo(s5))

\* lines 525-549
MunkiImport(s0, import_file_var) ==
    LET s1 == Need(s0, "version_key")
    IN  IF ~Live(s1) THEN s1
        ELSE IF s1.F["version_key"] # "CFBundleShortVersionString"
        THEN AddStep(
                 AddStep(s1, Processor("MunkiPkginfoMerger",
                                       ("additional_pkginfo.version" :> <<"%version%">>))),
                 Processor("MunkiImporter",
                           [pkg_path               |-> import_file_var,
                            repo_subdirectory      |-> <<"%MUNKI_REPO_SUBDIR%">>,
                            version_comparison_key |-> <<s1.F["version_key"]>>]))
        ELSE AddStep(s1, Processor("MunkiImporter",
                                   [pkg_path          |-> import_file_var,
                                    repo_subdirectory |-> <<"%MUNKI_REPO_SUBDIR%">>]))

\* lines 479-495
MunkiImage(s0) ==
    LET s1 == ReadUnsigned(s0)
    IN  IF ~Live(s1) THEN s1
        ELSE IF Unsigned(s1.F) THEN ImageVersioner(s1)
        ELSE s1

\* lines 497-516
MunkiArchive(s0) ==
    LET s1 == ReadUnsigned(s0)
    IN  IF ~Live(s1) THEN s1
        ELSE AddStep(IF Unsigned(s1.F) THEN AddStep(s1, UnarchiverStep) ELSE s1,
                     DmgCreatorStep)

\* lines 518-523 without the assignment of line 523
MunkiInstaller_without_blocking_applications(s0) == Need(s0, "blocking_applications")

\* lines 518-523
MunkiInstaller(s0) ==
    LET s1 == Need(s0, "blocking_applications")
    IN  IF ~Live(s1) THEN s1
        ELSE IF Len(s1.F["blocking_applications"]) > 0
             THEN SetInput(s1, "pkginfo.blocking_applications", s1.F["blocking_applications"])
             ELSE s1

generate_munki_recipe(f, p, recipe, q) ==
    LET s0 == Start(f, recipe)
        s1 == SetKey(s0, "Description",
                     <<"Downloads the latest version of ">> \o f["app_name"]
                       \o <<" and imports it into Munki.">>)
        s2 == SetKey(s1, "ParentRecipe", ParentIdentifier(f, p, "download"))
        s3 == Need(SetPkginfo(s2), "download_format")
        fmt == s3.F["download_format"]
        s4 == IF ~Live(s3) THEN s3
              ELSE IF fmt \in SUPPORTED_IMAGE_FORMATS THEN MunkiImage(s3)
              ELSE IF fmt \in SUPPORTED_ARCHIVE_FORMATS THEN MunkiArchive(s3)
              ELSE IF fmt \in SUPPORTED_INSTALL_FORMATS THEN MunkiInstaller(s3)
              ELSE s3
        import_file_var ==
              IF fmt \in SUPPORTED_ARCHIVE_FORMATS /\ fmt \notin SUPPORTED_IMAGE_FORMATS
              THEN <<"%dmg_path%">> ELSE <<"%pathname%">>
    IN  ExtractIcon(MunkiImport(s4, import_file_var))

----------------------------------------------------------------------------
(* generate_app_store_pkg_recipe, generate_pkg_recipe                      *)

generate_app_store_pkg_recipe(f, p, recipe, q) ==
    LET s0 == Start(f, recipe)
        s1 == SetKey(s0, "Description",
                     <<"Downloads the latest version of ">> \o f["app_name"]
                       \o <<" from the Mac App Store and creates a package.">>)
        s2 == SetKey(s1, "ParentRecipe", <<"com.github.nmcspadden.pkg.appstore">>)
        s3 == Need(s2, "app_path")
        s4 == SetInput(s3, "PATH", s3.F["app_path"])
        s5 == SetFilename(s4, <<"MAS-">> \o s4.R["filename"])
    IN  warn_about_appstoreapp_pyasn(s5)

\* lines 625-657
PkgImage(s0) ==
    LET s1 == ReadUnsigned(s0)
        s2 == IF ~Live(s1) THEN s1
              ELSE IF Unsigned(s1.F) THEN ImageVersioner(s1)
              ELSE s1
        s3 == AddStep(s2, Processor("PkgRootCreator",
                                    ("pkgdirs.Applications" :> <<"0775">>)
                                    @@ [pkgroot |-> <<"%RECIPE_CACHE_DIR%", "/", "%NAME%">>]))
        s4 == Need(s3, "app_name_key")
    IN  AddStep(s4,
            Processor("Copier",
                [source_path      |-> <<"%pathname%", "/", s4.F["app_name_key"], ".app">>,
                 destination_path |-> <<"%pkgroot%", "/Applications/",
                                        s4.F["app_name_key"], ".app">>]))

\* lines 659-680
PkgArchive(s0) ==
    LET s1 == ReadUnsigned(s0)
        s2 == AddStep(s1, UnarchiverStep)
        s3 == Need(Need(s2, "app_name_key"), "version_key")
    IN  IF ~Live(s1) THEN s1
        ELSE IF ~Unsigned(s1.F) THEN s1
        ELSE IF ~NoSparkleVersion(s2.F) THEN s2
        ELSE AddStep(s3, ZipVersionerStep(s3.F))

PkgCreatorStep ==
    Processor("PkgCreator",
              ("pkg_request.pkgroot" :> <<"%RECIPE_CACHE_DIR%", "/", "%NAME%">>)
              @@ ("pkg_request.pkgname" :> <<"%NAME%", "-", "%version%">>)
              @@ ("pkg_request.version" :> <<"%version%">>)
              @@ ("pkg_request.id" :> <<"%BUNDLE_ID%">>)
              @@ ("pkg_request.options" :> <<"purge_ds_store">>)
              @@ ("pkg_request.chown[0].path" :> <<"Applications">>)
              @@ ("pkg_request.chown[0].user" :> <<"root">>)
              @@ ("pkg_request.chown[0].group" :> <<"admin">>))

generate_pkg_recipe(f, p, recipe, q) ==
    LET s0 == Start(f, recipe)
    IN  IF ~Has(f, "bundle_id")
        THEN Return(Warn(s0, SkipBundleIdWarning(recipe["type"])))
        ELSE
        LET s1 == SetKey(s0, "Description",
                         <<"Downloads the latest version of ">> \o f["app_name"]
                           \o <<" and creates a package.">>)
            s2 == SetKey(s1, "ParentRecipe", ParentIdentifier(f, p, "download"))
            s3 == Need(SetInput(s2, "BUNDLE_ID", f["bundle_id"]), "download_format")
            fmt == s3.F["download_format"]
            s4 == IF ~Live(s3) THEN s3
                  ELSE IF fmt \in SUPPORTED_IMAGE_FORMATS THEN PkgImage(s3)
                  ELSE IF fmt \in SUPPORTED_ARCHIVE_FORMATS THEN PkgArchive(s3)
                  ELSE IF fmt \in SUPPORTED_INSTALL_FORMATS
                       THEN Return(Warn(s3, PkgAlreadyWarning))
                  ELSE s3
        IN  AddStep(s4, PkgCreatorStep)

----------------------------------------------------------------------------
(* generate_install_recipe                                                 *)

InstallFromDMGStep(f, dmg) ==
    Processor("InstallFromDMG",
              ("items_to_copy[0].source_item" :> <<f["app_name_key"], ".app">>)
              @@ ("items_to_copy[0].destination_path" :> <<"/Applications">>)
              @@ [dmg_path |-> dmg])

\* lines 746-772 with the Unarchiver of lines 748-755 appended whatever the
\* codesign facts
InstallArchive_always_unarchives(s0) ==
    LET s1 == ReadUnsigned(s0)
        s2 == AddStep(s1, UnarchiverStep)
        s3 == Need(AddStep(s2, DmgCreatorStep), "app_name_key")
    IN  AddStep(s3, InstallFromDMGStep(s3.F, <<"%dmg_path%">>))

\* lines 746-772
InstallArchive(s0) ==
    LET s1 == ReadUnsigned(s0)
        s2 == IF Live(s1) /\ Unsigned(s1.F) THEN AddStep(s1, UnarchiverStep) ELSE s1
        s3 == Need(AddStep(s2, DmgCreatorStep), "app_name_key")
    IN  AddStep(s3, InstallFromDMGStep(s3.F, <<"%dmg_path%">>))

\* lines 726-780
InstallSteps(s0, p) ==
    LET s1 == SetKey(s0, "Description",
                     <<"Installs the latest version of ">> \o s0.F["app_name"])
        s2 == SetKey(s1, "ParentRecipe", ParentIdentifier(s0.F, p, "download"))
        s3 == Need(s2, "download_format")
        fmt == s3.F["download_format"]
        s4 == Need(s3, "app_name_key")
    IN  IF ~Live(s3) THEN s3
        ELSE IF fmt \in SUPPORTED_IMAGE_FORMATS
             THEN AddStep(s4, InstallFromDMGStep(s4.F, <<"%pathname%">>))
        ELSE IF fmt \in SUPPORTED_ARCHIVE_FORMATS THEN InstallArchive(s3)
        ELSE IF fmt \in SUPPORTED_INSTALL_FORMATS
             THEN AddStep(s3, Processor("Installer", [pkg_path |-> <<"%pathname%">>]))
        ELSE s3

\* a variant without the App Store test of lines 718-724
generate_install_recipe_unguarded(f, p, recipe, q) == InstallSteps(Start(f, recipe), p)

generate_install_recipe(f, p, recipe, q) ==
    IF f["is_from_app_store"] = TRUE
    THEN Return(Warn(Start(f, recipe), SkipAppStoreWarning(recipe["type"])))
    ELSE InstallSteps(Start(f, recipe), p)

----------------------------------------------------------------------------
(* generate_jss_recipe; q: os.path.exists(<RecipeCreateLocation>/<app>.png) *)

\* lines 832-857
JSSImporterArguments(f) ==
    ("groups[0].name" :> <<"%GROUP_NAME%">>)
    @@ ("groups[0].smart" :> <<"True">>)
    @@ ("groups[0].template_path" :> <<"%GROUP_TEMPLATE%">>)
    @@ [prod_name                |-> <<"%NAME%">>,
        category                 |-> <<"%CATEGORY%">>,
        policy_category          |-> <<"%POLICY_CATEGORY%">>,
        policy_template          |-> <<"%POLICY_TEMPLATE%">>,
        self_service_icon        |-> <<"%SELF_SERVICE_ICON%">>,
        self_service_description |-> <<"%SELF_SERVICE_DESCRIPTION%">>]
    @@ (IF f["version_key"] = "CFBundleVersion"
        THEN ("extension_attributes[0].ext_attribute_path"
                  :> <<"CFBundleVersionExtensionAttribute.xml">>)
        ELSE <<>>)
    @@ (IF Has(f, "app_file") THEN [jss_inventory_name |-> f["app_file"]] ELSE <<>>)

generate_jss_recipe(f, p, recipe, q) ==
    LET s0 == Start(f, recipe)
    IN  IF ~Has(f, "bundle_id")
        THEN Return(Warn(s0, SkipBundleIdWarning(recipe["type"])))
        ELSE
        LET s1 == NeedPref(s0, p, "FollowOfficialJSSRecipesFormat")
            s2 == IF Live(s1) /\ p["FollowOfficialJSSRecipesFormat"] = TRUE
                  THEN SetKey(s1, "Identifier",
                              <<"com.github.jss-recipes.jss.">>
                                \o Replace(f["app_name"], " ", <<>>))
                  ELSE s1
            s3 == SetKey(s2, "Description",
                         <<"Downloads the latest version of ">> \o f["app_name"]
                           \o <<" and imports it into your JSS.">>)
            s4 == SetKey(s3, "ParentRecipe", ParentIdentifier(f, p, "pkg"))
            s5 == Remind(SetInput(s4, "CATEGORY", <<"Productivity">>), CategoryReminder)
            s6 == SetInput(SetInput(SetInput(s5,
                      "POLICY_CATEGORY", <<"Testing">>),
                      "POLICY_TEMPLATE", <<"PolicyTemplate.xml">>),
                      "SELF_SERVICE_ICON", <<"%NAME%", ".png">>)
            s7 == RemindUnless(s6, q, PngReminder(f["app_name"]))
            s8 == SetInput(SetInput(s7,
                      "SELF_SERVICE_DESCRIPTION", Get(f, "description", <<>>)),
                      "GROUP_NAME", <<"%NAME%", "-update-smart">>)
            s9 == Need(s8, "version_key")
            s10 == SetInput(s9, "GROUP_TEMPLATE",
                            IF s9.F["version_key"] = "CFBundleVersion"
                            THEN <<"CFBundleVersionSmartGroupTemplate.xml">>
                            ELSE <<"SmartGroupTemplate.xml">>)
            s11 == ExtractIcon(s10)
        IN  AddStep(s11, Processor("JSSImporter", JSSImporterArguments(s11.F)))

----------------------------------------------------------------------------
(* generate_absolute_recipe, generate_sccm_recipe;                         *)
(* q: a line of `autopkg repo-list` ends with the repository's URL         *)

generate_absolute_recipe(f, p, recipe, q) ==
    LET s0 == Start(f, recipe)
    IN  IF ~Has(f, "bundle_id")
        THEN Return(Warn(s0, SkipBundleIdWarning(recipe["type"])))
        ELSE
        LET s1 == SetKey(s0, "Description",
                         <<"Downloads the latest version of ">> \o f["app_name"]
                           \o <<" and copies it into your Absolute Manage Server.">>)
            s2 == SetKey(s1, "ParentRecipe", ParentIdentifierRaw(f, p, "pkg"))
            s3 == RemindUnless(s2, q, AbsoluteRepoReminder)
        IN  AddStep(s3,
                [Processor |-> "com.github.tburgin.AbsoluteManageExport/AbsoluteManageExport",
                 SharedProcessorRepoURL |-> <<"https://github.com/tburgin/AbsoluteManageExport">>,
                 Arguments |->
                    [dest_payload_path |-> <<"%RECIPE_CACHE_DIR%", "/", "%NAME%", "-",
                                             "%version%", ".amsdpackages">>,
                     sdpackages_ampkgprops_path |-> <<"%RECIPE_DIR%", "/", "%NAME%",
                                                      "-Defaults.ampkgprops">>,
                     source_payload_path |-> <<"%pkg_path%">>,
                     import_abman_to_servercenter |-> <<"True">>]])

generate_sccm_recipe(f, p, recipe, q) ==
    LET s0 == Start(f, recipe)
    IN  IF ~Has(f, "bundle_id")
        THEN Return(Warn(s0, SkipBundleIdWarning(recipe["type"])))
        ELSE
        LET s1 == SetKey(s0, "Description",
                         <<"Downloads the latest version of ">> \o f["app_name"]
                           \o <<" and copies it into your SCCM Server.">>)
            s2 == SetKey(s1, "ParentRecipe", ParentIdentifierRaw(f, p, "pkg"))
            s3 == RemindUnless(s2, q, SccmRepoReminder)
        IN  AddStep(s3,
                [Processor |-> "com.github.autopkg.cgerke-recipes.SharedProcessors/CmmacCreator",
                 SharedProcessorRepoURL |-> <<"https://github.com/autopkg/cgerke-recipes">>,
                 Arguments |->
                    [source_file           |-> <<"%pkg_path%">>,
                     destination_directory |-> <<"%RECIPE_CACHE_DIR%">>]])

----------------------------------------------------------------------------
(* generate_filewave_recipe; q as for absolute                             *)

\* lines 1008-1033
FilewaveFormat(s0) ==
    LET s1 == Need(s0, "download_format")
        fmt == s1.F["download_format"]
        s2 == Need(Need(s1, "app_name_key"), "version_key")
        s3 == ReadUnsigned(s1)
    IN  IF ~Live(s1) THEN s1
        ELSE IF fmt \in SUPPORTED_IMAGE_FORMATS /\ ~Has(s1.F, "sparkle_feed")
             THEN AddStep(s2, DmgVersionerStep(s2.F))
        ELSE IF fmt \in SUPPORTED_ARCHIVE_FORMATS
             THEN IF Live(s3) /\ Unsigned(s3.F) THEN AddStep(s3, UnarchiverStep) ELSE s3
        ELSE IF fmt \in SUPPORTED_INSTALL_FORMATS
             THEN Warn(s1, FilewavePkgWarning)
        ELSE s1

generate_filewave_recipe(f, p, recipe, q) ==
    LET s0 == Start(f, recipe)
    IN  IF ~Has(f, "bundle_id")
        THEN Return(Warn(s0, SkipBundleIdWarning(recipe["type"])))
        ELSE
        LET s1 == SetKey(s0, "Description",
                         <<"Downloads the latest version of ">> \o f["app_name"]
                           \o <<", creates a fileset, and copies it into your FileWave Server.">>)
            s2 == SetKey(s1, "ParentRecipe", ParentIdentifierRaw(f, p, "download"))
            s3 == FilewaveFormat(s2)
            s4 == RemindUnless(s3, q, FilewaveRepoReminder)
        IN  AddStep(s4,
                Processor("com.github.johncclayton.filewave.FWTool/FileWaveImporter",
                    [fw_app_bundle_id    |-> f["bundle_id"],
                     fw_app_version      |-> <<"%version%">>,
                     fw_import_source    |-> <<"%RECIPE_CACHE_DIR%", "/", "%NAME%", "/",
                                               "%NAME%", ".app">>,
                     fw_fileset_name     |-> <<"%NAME%", " - ", "%version%">>,
                     fw_fileset_group    |-> <<"Testing">>,
                     fw_destination_root |-> <<"/Applications/", "%NAME%", ".app">>]))

----------------------------------------------------------------------------
(* generate_ds_recipe                                                      *)

generate_ds_recipe(f, p, recipe, q) ==
    LET s0 == Start(f, recipe)
    IN  IF ~Has(f, "bundle_id")
        THEN Return(Warn(s0, SkipBundleIdWarning(recipe["type"])))
        ELSE
        LET s1 == SetKey(s0, "Description",
                         <<"Downloads the latest version of ">> \o f["app_name"]
                           \o <<" and copies it to your DeployStudio packages.">>)
            s2 == NeedPref(SetKey(s1, "ParentRecipe", ParentIdentifierRaw(f, p, "pkg")),
                           p, "DSPackagesPath")
            s3 == SetInput(SetInput(s2, "DS_PKGS_PATH", p["DSPackagesPath"]),
                           "DS_NAME", <<"%NAME%">>)
            s4 == AddStep(s3, Processor("StopProcessingIf",
                                        [predicate |-> <<"new_package_request == FALSE">>]))
        IN  AddStep(s4,
                Processor("Copier",
                    [source_path      |-> <<"%pkg_path%">>,
                     destination_path |-> <<"%DS_PKGS_PATH%", "/", "%DS_NAME%", ".pkg">>,
                     overwrite        |-> <<"True">>]))

----------------------------------------------------------------------------
(* build_recipes                                                           *)

\* get_generation_func: the list func_name, or <<>> for None
get_generation_func(f, p, recipe) ==
    IF recipe["type"] \notin p["RecipeTypes"] THEN <<>>
    ELSE IF recipe["type"] \in {"munki", "pkg"}
         THEN <<"generate", "app_store", recipe["type"], "recipe">>
         ELSE <<"generate", recipe["type"], "recipe">>

\* the module's generation functions, by "_".join(func_name)
GenerationFuncs ==
    {<<"generate", "download", "recipe">>,
     <<"generate", "app_store", "munki", "recipe">>,
     <<"generate", "munki", "recipe">>,
     <<"generate", "app_store", "pkg", "recipe">>,
     <<"generate", "pkg", "recipe">>,
     <<"generate", "install", "recipe">>,
     <<"generate", "jss", "recipe">>,
     <<"generate", "absolute", "recipe">>,
     <<"generate", "sccm", "recipe">>,
     <<"generate", "filewave", "recipe">>,
     <<"generate", "ds", "recipe">>}

\* globals()["_".join(func_name)](facts, prefs, recipe)
CallGenerationFunc(func_name, f, p, recipe, q) ==
    CASE func_name = <<"generate", "download", "recipe">> ->
             generate_download_recipe(f, p, recipe, q)
      [] func_name = <<"generate", "app_store", "munki", "recipe">> ->
             generate_app_store_munki_recipe(f, p, recipe, q)
      [] func_name = <<"generate", "munki", "recipe">> ->
             generate_munki_recipe(f, p, recipe, q)
      [] func_name = <<"generate", "app_store", "pkg", "recipe">> ->
             generate_app_store_pkg_recipe(f, p, recipe, q)
      [] func_name = <<"generate", "pkg", "recipe">> ->
             generate_pkg_recipe(f, p, recipe, q)
      [] func_name = <<"generate", "install", "recipe">> ->
             generate_install_recipe(f, p, recipe, q)
      [] func_name = <<"generate", "jss", "recipe">> ->
             generate_jss_recipe(f, p, recipe, q)
      [] func_name = <<"generate", "absolute", "recipe">> ->
             generate_absolute_recipe(f, p, recipe, q)
      [] func_name = <<"generate", "sccm", "recipe">> ->
             generate_sccm_recipe(f, p, recipe, q)
      [] func_name = <<"generate", "filewave", "recipe">> ->
             generate_filewave_recipe(f, p, recipe, q)
      [] func_name = <<"generate", "ds", "recipe">> ->
             generate_ds_recipe(f, p, recipe, q)
      [] OTHER -> Raise(Start(f, recipe), KeyError)

\* lines 135-152: name, filename, identifier and app_name_key of one recipe
PrepareRecipe(f, p, recipe) ==
    LET r1 == [recipe EXCEPT !["keys"] = [@ EXCEPT !["Input"] = Put(@, "NAME", f["app_name"])]]
        r2 == Put(r1, "filename", f["app_name"] \o <<".", recipe["type"], ".recipe">>)
        r3 == [r2 EXCEPT !["keys"] = Put(@, "Identifier",
                   p["RecipeIdentifierPrefix"] \o <<".", recipe["type"], ".">>
                     \o Replace(f["app_name"], " ", <<>>))]
    IN  IF Has(f, "app_file")
        THEN Start(Put(f, "app_name_key", "%APP_FILENAME%"),
                   [r3 EXCEPT !["keys"] =
                       [@ EXCEPT !["Input"] = Put(@, "APP_FILENAME", f["app_file"])]])
        ELSE Start(Put(f, "app_name_key", "%NAME%"), r3)

\* lines 155-162: select the generation function and call it
Generate(s, p, q) ==
    LET func_name == get_generation_func(s.F, p, s.R)
    IN  IF func_name = <<>>
        THEN Warn(s, NoFuncWarning(s.R["type"]))
        ELSE CallGenerationFunc(func_name, s.F, p, s.R, q)

\* os.path.join(recipe_dest_dir, recipe["filename"])
DestPath(f, recipe) == f["recipe_dest_dir"] \o <<"/">> \o recipe["filename"]

\* what one loop iteration or direct call leaves in the history
CallRecord(t, func_name, before, s) ==
    [type      |-> t,
     func      |-> func_name,
     warnings  |-> Len(s.F["warnings"]) - Len(before["warnings"]),
     reminders |-> Len(s.F["reminders"]) - Len(before["reminders"]),
     steps     |-> Len(s.R["keys"]["Process"]),
     raised    |-> s.X]

----------------------------------------------------------------------------
(* Inputs.  An optional fact is chosen as <<>> (absent) or <<value>>.      *)

Opt(S) == {<<>>} \cup {<<v>> : v \in S}

Present(S) == {<<v>> : v \in S}

Words == <<"Foo", "Bar", "Baz", "Qux", "Quux">>

\* an app name of k words: "Foo", "Foo Bar", ...
RECURSIVE AppName(_)
AppName(k) == IF k <= 1 THEN <<Words[1]>> ELSE AppName(k - 1) \o <<" ", Words[k]>>

Names == {AppName(k) : k \in 1..MaxNameWords}

Entries == <<"entry1", "entry2", "entry3", "entry4">>

\* the lists of at most MaxListLen entries
Lists == {SubSeq(Entries, 1, k) : k \in 0..MaxListLen}

Formats ==
    SUPPORTED_IMAGE_FORMATS \cup SUPPORTED_ARCHIVE_FORMATS \cup SUPPORTED_INSTALL_FORMATS

VersionKeys == {"CFBundleShortVersionString", "CFBundleVersion"}

\* the facts dict of a choice c (a record of options): the keys chosen
\* present, with empty warnings and reminders lists
FactsOf(c) ==
    LET present == {k \in DOMAIN c : c[k] # <<>>}
    IN  (IF "user_agent" \in present
         THEN ("user-agent" :> c["user_agent"][1]) ELSE <<>>)
        @@ [k \in present \ {"user_agent"} |-> c[k][1]]
        @@ [warnings |-> <<>>, reminders |-> <<>>]

\* the prefs dict with RecipeTypes = enabled
PrefsOf(enabled, follow) ==
    (IF follow = <<>> THEN <<>> ELSE [FollowOfficialJSSRecipesFormat |-> follow[1]])
    @@ [RecipeIdentifierPrefix |-> <<"com.github.your-name-here">>,
        RecipeCreateLocation   |-> <<"~/Library/AutoPkg/Recipe Robot Output">>,
        RecipeTypes            |-> enabled,
        RecipeCreateCount      |-> 0,
        DSPackagesPath         |-> <<"/Shared/DeployStudio/Packages">>]

\* Recipes() with the preferred flag of each type set from flagged
RecipesOf(flagged) == [t \in Types |-> [Recipe(t) EXCEPT !["preferred"] = t \in flagged]]

\* the facts generate_recipes is called with
GenerateFacts ==
    {FactsOf(c) : c \in
        [app_name             : Opt(Names),
         is_from_app_store    : Present(BOOLEAN),
         sparkle_feed         : Opt({<<"https://example.com/feed.xml">>}),
         github_repo          : Opt({<<"example/foo">>}),
         sourceforge_id       : Opt({<<"12345">>}),
         download_url         : Opt({<<"https://example.com/Foo.zip">>}),
         download_format      : Opt({"dmg"}),
         codesign_reqs        : Opt({<<>>, <<"identifier Foo">>}),
         codesign_authorities : Opt(Lists),
         version_key          : Opt(VersionKeys),
         developer            : Present({<<"Example, Inc.">>})]}

\* (preferred flags, RecipeTypes) pairs generate_recipes is called with
GenerateFlags ==
    {<<Types, Types>>, <<Types, {}>>, <<{}, Types>>, <<{"munki", "jss"}, {"download"}>>}

----------------------------------------------------------------------------
(* generate_recipes                                                        *)

StartState(e, f, p, rs) ==
    /\ entry = e
    /\ err = "none"
    /\ facts = f
    /\ prefs = p
    /\ recipes = rs
    /\ paths = <<>>
    /\ idx = 1
    /\ calls = <<>>
    /\ input = [facts |-> f, prefs |-> p, recipes |-> rs]
    /\ run = 1
    /\ first = <<>>

Init ==
    \E f \in GenerateFacts, fl \in GenerateFlags :
        /\ StartState("generate_recipes", f, PrefsOf(fl[2], <<FALSE>>), RecipesOf(fl[1]))
        /\ pc = "preflight"
        /\ preferred = <<>>

\* lines 56-66: the app name check, the preferred list and the checks of
\* raise_if_recipes_cannot_be_generated
generate_recipes_preflight ==
    /\ entry = "generate_recipes"
    /\ pc = "preflight"
    /\ LET e == preflight(facts, recipes)
       IN  /\ preferred' = IF Has(facts, "app_name") THEN PreferredOf(recipes)
                           ELSE preferred
           /\ err' = e
           /\ pc' = IF e = "none" THEN "defaults" ELSE "raised"
    /\ UNCHANGED <<entry, facts, prefs, recipes, paths, idx, calls, input, run, first>>

\* lines 68-96: the codesign and version key defaults, the destination directory
generate_recipes_defaults ==
    /\ entry = "generate_recipes"
    /\ pc = "defaults"
    /\ facts' = AfterPreflight(facts, prefs)
    /\ pc' = "build"
    /\ UNCHANGED <<entry, err, prefs, recipes, paths, preferred, idx, calls, input,
                   run, first>>

\* number of parameters of def build_recipes (line 130)
build_recipes_parameters == 3
\* number of arguments of the call of build_recipes (line 98)
build_recipes_arguments == 4

\* line 98: the call of build_recipes; Python raises TypeError when the
\* number of positional arguments is not the number of parameters
generate_recipes_build ==
    /\ entry = "generate_recipes"
    /\ pc = "build"
    /\ IF build_recipes_arguments # build_recipes_parameters
       THEN /\ err' = TypeError
            /\ pc' = "raised"
       ELSE /\ err' = err
            /\ pc' = "loop"
    /\ UNCHANGED <<entry, facts, prefs, recipes, paths, preferred, idx, calls, input,
                   run, first>>

Next ==
    \/ generate_recipes_preflight
    \/ generate_recipes_defaults
    \/ generate_recipes_build

Spec == Init /\ [][Next]_vars

----------------------------------------------------------------------------
(* Properties of generate_recipes.                                         *)

\* the catalog types flagged preferred in rs
Flagged(rs) == {t \in Types : rs[t]["preferred"]}

\* the fields of a Recipe that generation writes
Written(recipe) ==
    [Identifier   |-> recipe["keys"]["Identifier"],
     Input        |-> recipe["keys"]["Input"],
     Process      |-> recipe["keys"]["Process"],
     ParentRecipe |-> Get(recipe["keys"], "ParentRecipe", <<"(none)">>),
     filename     |-> Get(recipe, "filename", <<"(none)">>)]

\* C4: when the facts have no app_name, generate_recipes ends with the
\* missing-app-name error whatever the other facts, the preferred flags and
\* RecipeTypes are, and every Recipe still has the Identifier, Input, Process,
\* ParentRecipe and filename of a newly constructed Recipe.
C4_MissingAppNameIsFatal ==
    (entry = "generate_recipes" /\ pc # "preflight" /\ ~Has(input.facts, "app_name"))
        => /\ pc = "raised"
           /\ err = MissingAppName
           /\ \A t \in Types : Written(recipes[t]) = Written(Recipe(t))

\* C4's case: a run without app_name that has every other fact the later
\* checks ask for has ended with the missing-app-name error
C4_Witness ==
    /\ entry = "generate_recipes"
    /\ pc = "raised"
    /\ err = MissingAppName
    /\ ~Has(input.facts, "app_name")
    /\ Has(input.facts, "sparkle_feed")
    /\ Has(input.facts, "download_format")
    /\ Flagged(input.recipes) = Types
    /\ input.prefs["RecipeTypes"] = Types

\* C5: when no catalog type is both flagged preferred and enabled in
\* RecipeTypes, generate_recipes ends with the no-preferred-recipes error and
\* never reaches the defaults or the call of build_recipes.
C5_NoEnabledPreferredIsFatal ==
    (entry = "generate_recipes" /\ pc # "preflight" /\ Has(input.facts, "app_name")
        /\ Flagged(input.recipes) \cap input.prefs["RecipeTypes"] = {})
        => (pc = "raised" /\ err = NoPreferredRecipes)

\* the error the checks give when made in the order app name, preferred
\* types, download method, download format
FirstFailingCheck(f, rs) ==
    IF ~Has(f, "app_name") THEN MissingAppName
    ELSE IF Flagged(rs) = {} THEN NoPreferredRecipes
    ELSE IF f["is_from_app_store"] = FALSE /\ SourceKeys \cap DOMAIN f = {}
         THEN NoDownloadMethod
    ELSE IF f["is_from_app_store"] = FALSE /\ ~Has(f, "download_format")
         THEN UnknownDownloadFormat
    ELSE "none"

\* C6: the preflight checks are made in the order app name, preferred types,
\* download method, download format and the first one that fails gives the
\* error; for an App Store app the last two never fail; when the run ends
\* with the no-download-method or the unknown-format error the facts are the
\* facts it was called with (no default written, no reminder appended).
C6_PreflightOrder ==
    (entry = "generate_recipes" /\ pc # "preflight")
        => /\ (pc = "raised" /\ err \in PreflightErrors)
                  <=> FirstFailingCheck(input.facts, input.recipes) # "none"
           /\ (pc = "raised" /\ err \in PreflightErrors)
                  => err = FirstFailingCheck(input.facts, input.recipes)
           /\ (Has(input.facts, "app_name") /\ input.facts["is_from_app_store"] = TRUE)
                  => err \notin {NoDownloadMethod, UnknownDownloadFormat}
           /\ (pc = "raised" /\ err \in {NoDownloadMethod, UnknownDownloadFormat})
                  => facts = input.facts

\* C6's case: a run whose facts have neither a download source nor a
\* download format, nor any of the keys the defaults would write, has ended
\* with the no-download-method error
C6_Witness ==
    /\ entry = "generate_recipes"
    /\ pc = "raised"
    /\ err = NoDownloadMethod
    /\ ~Has(input.facts, "download_format")
    /\ ~Has(input.facts, "codesign_reqs")
    /\ ~Has(input.facts, "codesign_authorities")
    /\ ~Has(input.facts, "version_key")

\* C14: when generate_recipes is about to call build_recipes, the defaults
\* have been applied once: with neither codesign fact in the input both are
\* set to empty values and one reminder was appended, with version_key
\* missing it is CFBundleShortVersionString and one reminder was appended,
\* a fact that was present is unchanged and brought no reminder; and
\* version_key, codesign_reqs and codesign_authorities are all present.
C14_SoftDefaults ==
    (entry = "generate_recipes" /\ pc = "build")
        => LET f0 == input.facts
               no_codesign == ~Has(f0, "codesign_reqs") /\ ~Has(f0, "codesign_authorities")
               no_key == ~Has(f0, "version_key")
           IN  /\ IF no_codesign
                  THEN /\ Get(facts, "codesign_reqs", <<"(none)">>) = <<>>
                       /\ Get(facts, "codesign_authorities", <<"(none)">>) = <<>>
                  ELSE \A k \in {"codesign_reqs", "codesign_authorities"} :
                          Has(f0, k) => (Has(facts, k) /\ facts[k] = f0[k])
               /\ Has(facts, "version_key")
               /\ facts["version_key"] =
                     IF no_key THEN "CFBundleShortVersionString" ELSE f0["version_key"]
               /\ Len(facts["reminders"]) =
                     (IF no_codesign THEN 1 ELSE 0) + (IF no_key THEN 1 ELSE 0)
               /\ Has(facts, "codesign_reqs")
               /\ Has(facts, "codesign_authorities")

\* C10: a run of generate_recipes ends with an exception only in the
\* preflight checks: once they pass, build_recipes is entered and nothing
\* raises.
C10_PreflightIsTheOnlyAbort ==
    (entry = "generate_recipes" /\ pc = "raised") => err \in PreflightErrors

----------------------------------------------------------------------------
(* build_recipes called on facts that passed the preflight of              *)
(* generate_recipes (lines 56-96), twice in a row on the same input.       *)

\* (codesign_reqs, codesign_authorities) choices: both absent, requirement
\* only, authorities only, requirement with an empty authorities list
CodesignChoices ==
    {<< <<>>, <<>> >>, << <<<<"identifier Foo">>>>, <<>> >>,
     << <<<<"identifier Foo">>>>, <<<<>>>> >>}
    \cup {<< <<>>, <<l>> >> : l \in Lists \ {<<>>}}

\* facts of an app that is downloaded from its developer
BuildFacts ==
    {f \in
        {FactsOf(c @@ [codesign_reqs |-> cs[1], codesign_authorities |-> cs[2]]) :
            c \in [app_name          : Present(Names),
                   is_from_app_store : Present({FALSE}),
                   bundle_id         : Opt({<<"com.example.foo">>}),
                   sparkle_feed      : Opt({<<"https://example.com/feed.xml">>}),
                   download_url      : Opt({<<"https://example.com/Foo.zip">>}),
                   download_filename : Present({<<"Foo.zip">>}),
                   download_format   : Present(Formats),
                   version_key       : Opt(VersionKeys),
                   icon_path         : Opt({<<"Contents/Resources/Foo.icns">>}),
                   app_path          : Present({<<"/Applications/Foo.app">>}),
                   developer         : Present({<<"Example, Inc.">>})],
            cs \in CodesignChoices} :
        Has(f, "sparkle_feed") # Has(f, "download_url")}

\* facts of an app that comes from the App Store
StoreFacts ==
    {FactsOf(c) :
        c \in [app_name          : Present(Names),
               is_from_app_store : Present({TRUE}),
               bundle_id         : Opt({<<"com.example.foo">>}),
               download_format   : Opt(Formats),
               icon_path         : Opt({<<"Contents/Resources/Foo.icns">>}),
               app_path          : Present({<<"/Applications/Foo.app">>}),
               developer         : Present({<<"Example, Inc.">>})]}

\* the facts of the runs over the whole catalog
CatalogFacts ==
    {FactsOf(c) :
        c \in [app_name             : Present(Names),
               is_from_app_store    : Present(BOOLEAN),
               bundle_id            : Opt({<<"com.example.foo">>}),
               download_url         : Present({<<"https://example.com/Foo.zip">>}),
               download_filename    : Present({<<"Foo.zip">>}),
               download_format      : Present(SUPPORTED_ARCHIVE_FORMATS),
               app_path             : Present({<<"/Applications/Foo.app">>}),
               developer            : Present({<<"Example, Inc.">>})]}

\* a recipe type with its parent type, and the chain download, pkg, jss
ChainSets ==
    {{"download", t} : t \in {"munki", "pkg", "install", "filewave"}}
    \cup {{"pkg", t} : t \in {"jss", "absolute", "sccm", "ds"}}
    \cup {{"munki", "jss"}, {"download", "pkg", "jss"}}

\* the (facts, preferred flags, RecipeTypes) build_recipes is called with
BuildInputs ==
    {<<f, fl, Types>> : f \in BuildFacts \cup StoreFacts, fl \in ChainSets}
    \cup {<<f, Types, en>> : f \in CatalogFacts,
                             en \in {Types, {}, {"download", "munki", "jss"}}}

InitBuild ==
    \E i \in BuildInputs :
        LET p == PrefsOf(i[3], <<FALSE>>)
        IN  /\ StartState("build_recipes", AfterPreflight(i[1], p), p, RecipesOf(i[2]))
            /\ pc = "loop"
            /\ preferred = PreferredOf(RecipesOf(i[2]))

\* Identifier and Process of every recipe
Results(rs) ==
    [t \in Types |-> [Identifier |-> rs[t]["keys"]["Identifier"],
                      Process    |-> rs[t]["keys"]["Process"]]]

\* the answers the external query of the generation function of type t can
\* give (FALSE alone when the function makes no query)
Queries(t) == IF t \in {"jss", "absolute", "sccm", "filewave"} THEN BOOLEAN ELSE {FALSE}

\* lines 133-169: one iteration of the loop over preferred.
\* q: the answer of the external query the generation function makes;
\* exists: os.path.exists(dest_path)
build_recipes ==
    /\ entry = "build_recipes"
    /\ pc = "loop"
    /\ idx <= Len(preferred)
    /\ \E q \in Queries(preferred[idx]), exists \in BOOLEAN :
        LET t == preferred[idx]
            s0 == PrepareRecipe(facts, prefs, recipes[t])
            s == Generate(s0, prefs, q)
        IN  /\ facts' = s.F
            /\ recipes' = [recipes EXCEPT ![t] = s.R]
            /\ calls' = Append(calls,
                               CallRecord(t, get_generation_func(s0.F, prefs, s0.R), facts, s))
            /\ IF s.X = "none"
               THEN /\ prefs' = IF exists THEN prefs
                                ELSE [prefs EXCEPT !["RecipeCreateCount"] = @ + 1]
                    /\ paths' = Append(paths, DestPath(s.F, s.R))
                    /\ idx' = idx + 1
                    /\ err' = err
                    /\ pc' = IF idx = Len(preferred) THEN "done" ELSE "loop"
               ELSE /\ prefs' = prefs
                    /\ paths' = paths
                    /\ idx' = idx
                    /\ err' = s.X
                    /\ pc' = "raised"
    /\ UNCHANGED <<entry, preferred, input, run, first>>

\* the engine is started again on the input of the first run
second_run ==
    /\ entry = "build_recipes"
    /\ pc \in {"done", "raised"}
    /\ run = 1
    /\ first' = Results(recipes)
    /\ run' = 2
    /\ facts' = input.facts
    /\ prefs' = input.prefs
    /\ recipes' = input.recipes
    /\ paths' = <<>>
    /\ idx' = 1
    /\ calls' = <<>>
    /\ err' = "none"
    /\ pc' = "loop"
    /\ UNCHANGED <<entry, preferred, input>>

NextBuild ==
    \/ build_recipes
    \/ second_run

SpecBuild == InitBuild /\ [][NextBuild]_vars

----------------------------------------------------------------------------
(* The generation functions called directly, each on a recipe prepared as  *)
(* the loop of build_recipes prepares it (lines 135-152), for facts that   *)
(* passed the preflight of generate_recipes: one function, or the function *)
(* of a parent type followed by the function of a child type.              *)

\* the codesign facts of the direct calls: those of CodesignChoices, and an
\* empty codesign_reqs alone or together with a non-empty codesign_authorities
RuleCodesignChoices ==
    CodesignChoices \cup {<< <<<<>>>>, <<>> >>}
                    \cup {<< <<<<>>>>, <<l>> >> : l \in Lists \ {<<>>}}

\* facts for generate_download_recipe: every choice of download sources
DownloadRuleFacts ==
    {f \in
        {FactsOf(c @@ [codesign_reqs |-> cs[1], codesign_authorities |-> cs[2]]) :
            c \in [app_name                 : Present(Names),
                   is_from_app_store        : Present({FALSE}),
                   sparkle_feed             : Opt({<<"https://example.com/feed.xml">>}),
                   github_repo              : Opt({<<"example/foo">>}),
                   sourceforge_id           : Opt({<<"12345">>}),
                   download_url             : Opt({<<"https://example.com/Foo.zip">>}),
                   download_filename        : Present({<<"Foo.zip">>}),
                   download_format          : Present(Formats),
                   user_agent               : Opt({<<"Mozilla/5.0">>}),
                   sparkle_provides_version : Opt(BOOLEAN),
                   version_key              : Present(VersionKeys),
                   developer                : Present({<<"Example, Inc.">>})],
            cs \in RuleCodesignChoices} :
        SourceKeys \cap DOMAIN f # {}}

\* facts for generate_munki_recipe and generate_app_store_munki_recipe
MunkiRuleFacts ==
    {FactsOf(c @@ [codesign_reqs |-> cs[1], codesign_authorities |-> cs[2]]) :
        c \in [app_name              : Present(Names),
               is_from_app_store     : Present({FALSE}),
               download_url          : Present({<<"https://example.com/Foo.zip">>}),
               download_filename     : Present({<<"Foo.zip">>}),
               download_format       : Present(Formats),
               version_key           : Present(VersionKeys),
               blocking_applications : Opt(Lists),
               icon_path             : Opt({<<"Contents/Resources/Foo.icns">>}),
               description           : Opt({<<"Foo does things.">>}),
               app_path              : Present({<<"/Applications/Foo.app">>}),
               developer             : Present({<<"Example, Inc.">>})],
        cs \in RuleCodesignChoices}

\* facts for the other functions that have a parent recipe
ChildRuleFacts ==
    {f \in
        {FactsOf(c @@ [codesign_reqs |-> cs[1], codesign_authorities |-> cs[2]]) :
            c \in [app_name          : Present(Names),
                   is_from_app_store : Present({FALSE}),
                   bundle_id         : Opt({<<"com.example.foo">>}),
                   sparkle_feed      : Opt({<<"https://example.com/feed.xml">>}),
                   download_url      : Opt({<<"https://example.com/Foo.zip">>}),
                   download_filename : Present({<<"Foo.zip">>}),
                   download_format   : Present(Formats),
                   version_key       : Present(VersionKeys),
                   app_path          : Present({<<"/Applications/Foo.app">>}),
                   developer         : Present({<<"Example, Inc.">>})],
            cs \in RuleCodesignChoices} :
        Has(f, "sparkle_feed") # Has(f, "download_url")}

\* the recipe types whose functions are called, in call order
ChildPlans ==
    {<<"download", t>> : t \in {"pkg", "install", "filewave"}}
    \cup {<<"pkg", t>> : t \in {"jss", "absolute", "sccm", "ds"}}

\* the (facts, types) pairs of the direct calls
RuleInputs ==
    {<<f, <<"download">> >> : f \in DownloadRuleFacts}
    \cup {<<f, <<"download", "munki">> >> : f \in MunkiRuleFacts}
    \cup {<<f, pl>> : f \in ChildRuleFacts, pl \in ChildPlans}

InitRules ==
    \E i \in RuleInputs :
        LET p == PrefsOf(Types, <<FALSE>>)
        IN  /\ StartState("rules", AfterPreflight(i[1], p), p,
                          RecipesOf({i[2][k] : k \in 1..Len(i[2])}))
            /\ pc = "loop"
            /\ preferred = i[2]

\* the base generation function of type t
BaseRule(t) == <<"generate", t, "recipe">>

\* the App Store variant of the generation function of type t
AppStoreRule(t) == <<"generate", "app_store", t, "recipe">>

\* the generation functions of recipe type t
RulesOf(t) == IF t \in {"munki", "pkg"} THEN {BaseRule(t), AppStoreRule(t)} ELSE {BaseRule(t)}

\* lines 135-152 and 162 for the next type, with the function of line 162
\* being any generation function of that type
call_rule ==
    /\ entry = "rules"
    /\ pc = "loop"
    /\ idx <= Len(preferred)
    /\ \E func_name \in RulesOf(preferred[idx]), q \in Queries(preferred[idx]) :
        LET t == preferred[idx]
            s0 == PrepareRecipe(facts, prefs, recipes[t])
            s == CallGenerationFunc(func_name, s0.F, prefs, s0.R, q)
        IN  /\ facts' = s.F
            /\ recipes' = [recipes EXCEPT ![t] = s.R]
            /\ calls' = Append(calls, CallRecord(t, func_name, facts, s))
            /\ err' = s.X
            /\ idx' = IF s.X = "none" THEN idx + 1 ELSE idx
            /\ pc' = IF s.X # "none" THEN "raised"
                     ELSE IF idx = Len(preferred) THEN "done" ELSE "loop"
    /\ UNCHANGED <<entry, prefs, paths, preferred, input, run, first>>

NextRules == call_rule

SpecRules == InitRules /\ [][NextRules]_vars

----------------------------------------------------------------------------
(* Every entry point together: generate_recipes, build_recipes and the     *)
(* direct calls of the generation functions.                               *)

InitAll == Init \/ InitBuild \/ InitRules

NextAll == Next \/ NextBuild \/ NextRules

SpecAll == InitAll /\ [][NextAll]_vars

\* list a is a prefix of list b
IsPrefix(a, b) == Len(a) <= Len(b) /\ SubSeq(b, 1, Len(a)) = a

\* C13: within a run, every step of generate_recipes, every loop iteration
\* of build_recipes and every generation function leaves the previous
\* facts["warnings"] and facts["reminders"] as prefixes of the new lists.
C13_AppendOnly ==
    [][run' = run
          => /\ IsPrefix(facts["warnings"], facts'["warnings"])
             /\ IsPrefix(facts["reminders"], facts'["reminders"])]_vars

\* C13's case: build_recipes has ended on facts that already held the two
\* reminders of the preflight defaults, and its generation functions have
\* appended two more reminders and two warnings
C13_Witness ==
    /\ entry = "build_recipes"
    /\ pc = "done"
    /\ Len(input.facts["reminders"]) = 2
    /\ IsPrefix(input.facts["reminders"], facts["reminders"])
    /\ Len(facts["reminders"]) >= 4
    /\ Len(facts["warnings"]) >= 2

----------------------------------------------------------------------------
(* Properties of build_recipes.                                            *)

\* the history records of the loop iterations made for recipe type t
CallsOf(t) == {i \in 1..Len(calls) : calls[i].type = t}

\* C1: for every enabled recipe type the dispatcher selects the App Store
\* variant exactly when is_from_app_store is true and the type is munki or
\* pkg, and the base function of the type in every other case.
C1_RuleSelection ==
    entry = "build_recipes"
        => \A i \in 1..Len(calls) :
              calls[i].type \in prefs["RecipeTypes"]
                  => calls[i].func =
                        IF facts["is_from_app_store"] = TRUE
                           /\ calls[i].type \in {"munki", "pkg"}
                        THEN AppStoreRule(calls[i].type)
                        ELSE BaseRule(calls[i].type)

\* C2: with is_from_app_store true, the loop iteration of the download type
\* and the one of the install type each append one warning, and the Process
\* of that recipe is empty.
C2_AppStoreSkipsDownloadAndInstall ==
    (entry = "build_recipes" /\ facts["is_from_app_store"] = TRUE)
        => \A t \in {"download", "install"} : \A i \in CallsOf(t) :
              /\ calls[i].warnings = 1
              /\ calls[i].raised = "none"
              /\ recipes[t]["keys"]["Process"] = <<>>

\* C2's case: for an App Store app with a known download format, the
\* download and the install generation functions have both been called
C2_Witness ==
    /\ entry = "build_recipes"
    /\ pc = "done"
    /\ facts["is_from_app_store"] = TRUE
    /\ Has(facts, "download_format")
    /\ \E i \in CallsOf("download") : calls[i].func = BaseRule("download")
    /\ \E i \in CallsOf("install") : calls[i].func = BaseRule("install")

\* C3: without bundle_id, the loop iteration of each of the types pkg, jss,
\* absolute, sccm, filewave and ds appends a warning and leaves the Process
\* of that recipe empty.
C3_NoBundleIdSkips ==
    (entry = "build_recipes" /\ ~Has(facts, "bundle_id"))
        => \A t \in {"pkg", "jss", "absolute", "sccm", "filewave", "ds"} :
              \A i \in CallsOf(t) :
                  /\ calls[i].warnings >= 1
                  /\ recipes[t]["keys"]["Process"] = <<>>

\* C7: at the end of the second run on the same facts and prefs, every
\* recipe has the Identifier and the Process it had at the end of the first
\* run, whatever the external queries answered in either run.
C7_Determinism ==
    (entry = "build_recipes" /\ run = 2 /\ pc \in {"done", "raised"})
        => Results(recipes) = first

\* C7's case: a second run has ended in which the repository query of the
\* absolute function found the repository (no reminder), one of the two
\* destination paths existed and the other did not, and steps were generated
C7_Witness ==
    /\ entry = "build_recipes"
    /\ run = 2
    /\ pc = "done"
    /\ prefs["RecipeCreateCount"] = 1
    /\ \E i \in CallsOf("absolute") : calls[i].steps = 1 /\ calls[i].reminders = 0
    /\ first["absolute"]["Process"] # <<>>

\* the placeholders that processing steps produce
Placeholders == {"%pathname%", "%version%", "%pkgroot%", "%dmg_path%", "%pkg_path%"}

\* the placeholders the arguments of a step reference
Uses(step) ==
    IF ~Has(step, "Arguments") THEN {}
    ELSE {ph \in Placeholders :
            \E k \in DOMAIN step["Arguments"] :
                \E i \in 1..Len(step["Arguments"][k]) : step["Arguments"][k][i] = ph}

\* the placeholder a step produces
Produces(step) ==
    CASE step["Processor"] = "URLDownloader" -> {"%pathname%"}
      [] step["Processor"] \in {"Versioner", "AppDmgVersioner", "SparkleUpdateInfoProvider",
                                "GitHubReleasesInfoProvider"} -> {"%version%"}
      [] step["Processor"] = "PkgRootCreator" -> {"%pkgroot%"}
      [] step["Processor"] = "DmgCreator" -> {"%dmg_path%"}
      [] step["Processor"] = "PkgCreator" -> {"%pkg_path%"}
      [] OTHER -> {}

\* the placeholders produced by the first n steps of a Process
ProducedBy(process, n) == UNION {Produces(process[i]) : i \in 1..n}

\* the placeholders produced on the ParentRecipe chain that starts at the
\* recipe with identifier id; a parent that is not a recipe of this run is
\* taken to produce every placeholder
RECURSIVE ChainProduces(_, _, _)
ChainProduces(rs, id, seen) ==
    LET found == {t \in Types \ seen : rs[t]["keys"]["Identifier"] = id}
    IN  IF found = {} THEN Placeholders
        ELSE LET t == CHOOSE u \in found : TRUE
                 own == ProducedBy(rs[t]["keys"]["Process"], Len(rs[t]["keys"]["Process"]))
             IN  IF Has(rs[t]["keys"], "ParentRecipe")
                 THEN own \cup ChainProduces(rs, rs[t]["keys"]["ParentRecipe"], seen \cup {t})
                 ELSE own

\* C8: when build_recipes has ended, every step of every Process that
\* references %pathname%, %version%, %pkgroot%, %dmg_path% or %pkg_path% has
\* a step producing it earlier in the same Process or in the Process of a
\* recipe on its ParentRecipe chain.
C8_PlaceholdersHaveProducers ==
    (entry = "build_recipes" /\ pc = "done")
        => \A t \in Types :
              LET keys == recipes[t]["keys"]
                  inherited == IF Has(keys, "ParentRecipe")
                               THEN ChainProduces(recipes, keys["ParentRecipe"], {t})
                               ELSE {}
              IN  \A k \in 1..Len(keys["Process"]) :
                      Uses(keys["Process"][k])
                          \subseteq (ProducedBy(keys["Process"], k - 1) \cup inherited)

\* C9: the filewave function with bundle_id present and an installer
\* package as download format appends a warning and leaves the Process of
\* the filewave recipe empty.
C9_FilewavePkgUnsupported ==
    (entry = "build_recipes" /\ Has(facts, "bundle_id")
        /\ Has(facts, "download_format")
        /\ facts["download_format"] \in SUPPORTED_INSTALL_FORMATS)
        => \A i \in CallsOf("filewave") :
              calls[i].func = BaseRule("filewave")
                  => /\ calls[i].warnings >= 1
                     /\ recipes["filewave"]["keys"]["Process"] = <<>>

\* C11: a loop iteration of build_recipes changes no preference other than
\* RecipeCreateCount, raises it by at most one, and leaves it as it is when
\* the recipe of the iteration ends with an empty Process (nothing is
\* written for it).
C11_CounterCountsWrittenRecipes ==
    [][(entry = "build_recipes" /\ pc = "loop" /\ idx <= Len(preferred))
          => /\ \E d \in {0, 1} :
                   prefs' = [prefs EXCEPT !["RecipeCreateCount"] = @ + d]
             /\ ~Recipe_write(recipes'[preferred[idx]]) => prefs' = prefs]_vars

\* C12: build_recipes visits the preferred types once each in catalog order,
\* one loop iteration per type; every iteration either calls one generation
\* function, which returns normally, or (no function for the type) appends
\* one warning and no step; the loop ends after the last preferred type.
C12_OneRulePerTypeInOrder ==
    entry = "build_recipes"
        => /\ preferred = Filter(recipes_meta, {preferred[i] : i \in 1..Len(preferred)})
           /\ Len(calls) <= Len(preferred)
           /\ \A i \in 1..Len(calls) :
                 /\ calls[i].type = preferred[i]
                 /\ calls[i].raised = "none"
                 /\ IF calls[i].func = <<>>
                    THEN calls[i].warnings = 1 /\ calls[i].steps = 0
                    ELSE calls[i].func \in GenerationFuncs
           /\ pc # "loop" => (pc = "done" /\ Len(calls) = Len(preferred))

\* C16: in a run without icon_path in which the jss or munki function got as
\* far as its steps, the missing icon is recorded as exactly one reminder
\* and as no warning.
C16_MissingIconIsOneReminder ==
    (/\ entry = "build_recipes"
     /\ ~Has(facts, "icon_path")
     /\ \E i \in 1..Len(calls) :
           /\ calls[i].func \in {BaseRule("munki"), BaseRule("jss")}
           /\ calls[i].steps > 0)
        => /\ Cardinality({k \in 1..Len(facts["reminders"]) :
                              facts["reminders"][k] = IconWarning}) = 1
           /\ \A k \in 1..Len(facts["warnings"]) : facts["warnings"][k] # IconWarning

\* the loop iterations that ran an App Store variant
AppStoreCalls ==
    {i \in 1..Len(calls) : calls[i].func \in {AppStoreRule("munki"), AppStoreRule("pkg")}}

\* C26: after generate_app_store_munki_recipe or generate_app_store_pkg_recipe
\* ran for a recipe, the recipe has the ParentRecipe of the AppStoreApp
\* recipe of its type, a filename that is MAS- followed by the filename the
\* loop gave it, and an empty Process, so that Recipe.write writes nothing;
\* nothing was raised, and each such call appended exactly one copy of the
\* AppStoreApp reminder.
C26_AppStoreVariantsWriteNothing ==
    entry = "build_recipes"
        => /\ \A i \in AppStoreCalls :
                 LET t == calls[i].type
                 IN  /\ calls[i].raised = "none"
                     /\ calls[i].steps = 0
                     /\ calls[i].reminders >= 1
                     /\ recipes[t]["keys"]["Process"] = <<>>
                     /\ ~Recipe_write(recipes[t])
                     /\ recipes[t]["keys"]["ParentRecipe"] =
                           <<IF t = "munki" THEN "com.github.nmcspadden.munki.appstore"
                                            ELSE "com.github.nmcspadden.pkg.appstore">>
                     /\ recipes[t]["filename"] =
                           <<"MAS-">> \o facts["app_name"] \o <<".", t, ".recipe">>
           /\ Cardinality({k \in 1..Len(facts["reminders"]) :
                              facts["reminders"][k] = AppStoreReminder})
                 = Cardinality(AppStoreCalls)

C26_Witness ==
    /\ entry = "build_recipes"
    /\ pc = "done"
    /\ facts["is_from_app_store"] = TRUE
    /\ Cardinality(AppStoreCalls) = 2
    /\ recipes["munki"]["filename"] = <<"MAS-">> \o facts["app_name"] \o <<".", "munki", ".recipe">>

--------------------------------------------------------------------------
\* Properties of the generation functions called one by one

\* C15: after a base function of munki, pkg, install, jss, absolute, sccm, ds
\* or filewave has set ParentRecipe, ParentRecipe equals the Identifier that
\* lines 143-145 gave earlier in the same run to the recipe of the parent
\* type (download for munki, pkg, install and filewave; pkg for the others),
\* whatever the app name.
C15_ParentRecipeIsParentIdentifier ==
    entry = "rules"
        => \A i \in 1..Len(calls) :
              LET t == calls[i].type
                  parent == IF t \in {"munki", "pkg", "install", "filewave"}
                            THEN "download" ELSE "pkg"
              IN  (/\ t # "download"
                   /\ calls[i].func = BaseRule(t)
                   /\ \E j \in 1..(i - 1) : calls[j].type = parent
                   /\ Has(recipes[t]["keys"], "ParentRecipe"))
                      => recipes[t]["keys"]["ParentRecipe"]
                            = recipes[parent]["keys"]["Identifier"]

\* the facts name no download source but download_url
DirectUrlOnly(f) == SourceKeys \cap DOMAIN f = {"download_url"}

\* neither codesign fact has a non-empty value
NoCodesign(f) ==
    Get(f, "codesign_reqs", <<>>) = <<>> /\ Get(f, "codesign_authorities", <<>>) = <<>>

\* generate_download_recipe was called in this run
DownloadCalled ==
    entry = "rules" /\ Len(calls) >= 1 /\ calls[1].func = BaseRule("download")

\* C17: after generate_download_recipe on facts with download_url as the only
\* source and no non-empty codesign fact, Process is a URLDownloader step with
\* url %DOWNLOAD_URL% and the download_filename fact as filename, carrying a
\* user-agent request header exactly when the user-agent fact is present,
\* followed by EndOfCheckPhase and nothing else.
C17_DirectUrlUnsigned ==
    (DownloadCalled /\ DirectUrlOnly(facts) /\ NoCodesign(facts))
        => LET P == recipes["download"]["keys"]["Process"]
               ua == Has(facts, "user-agent")
           IN  /\ Len(P) = 2
               /\ P[1].Processor = "URLDownloader"
               /\ DOMAIN P[1].Arguments =
                     {"url", "filename"}
                        \cup (IF ua THEN {"request_headers.user-agent"} ELSE {})
               /\ P[1].Arguments["url"] = <<"%DOWNLOAD_URL%">>
               /\ P[1].Arguments["filename"] = facts["download_filename"]
               /\ ua => P[1].Arguments["request_headers.user-agent"] = facts["user-agent"]
               /\ P[2] = [Processor |-> "EndOfCheckPhase"]
               /\ \A k \in 1..Len(P) : P[k].Processor # "CodeSignatureVerifier"

C17_Witness ==
    /\ DownloadCalled /\ DirectUrlOnly(facts) /\ NoCodesign(facts)
    /\ pc = "done"
    /\ Has(facts, "user-agent")
    /\ Len(recipes["download"]["keys"]["Process"]) = 2
    /\ Has(recipes["download"]["keys"]["Process"][1].Arguments, "request_headers.user-agent")

\* the facts name a Sparkle feed and no download_url
SparkleNoUrl(f) == Has(f, "sparkle_feed") /\ ~Has(f, "download_url")

\* C18 (as stated): after generate_download_recipe on facts with a Sparkle
\* feed, no download_url and no non-empty codesign fact, the filename of the
\* second step is the app name followed by -%version%.<download_format>.
C18_FilenameStartsWithAppName ==
    (DownloadCalled /\ SparkleNoUrl(facts) /\ NoCodesign(facts))
        => LET P == recipes["download"]["keys"]["Process"]
           IN  /\ Len(P) >= 2
               /\ P[2].Arguments["filename"] =
                     facts["app_name"] \o <<"-", "%version%", ".", facts["download_format"]>>

\* C18 (amended): on these facts Process is the SparkleUpdateInfoProvider
\* step with appcast_url %SPARKLE_FEED_URL%, a URLDownloader step whose
\* filename is the placeholder %NAME% followed by -%version%.<download_format>,
\* Input.NAME being the app name, and EndOfCheckPhase as third and last step;
\* with a user-agent fact both first steps carry it as request header,
\* without it neither step has a header.
C18_SparkleUnsigned ==
    (DownloadCalled /\ SparkleNoUrl(facts) /\ NoCodesign(facts))
        => LET keys == recipes["download"]["keys"]
               P == keys["Process"]
               ua == Has(facts, "user-agent")
           IN  /\ Len(P) = 3
               /\ P[1].Processor = "SparkleUpdateInfoProvider"
               /\ P[1].Arguments["appcast_url"] = <<"%SPARKLE_FEED_URL%">>
               /\ keys["Input"]["SPARKLE_FEED_URL"] = facts["sparkle_feed"]
               /\ P[2].Processor = "URLDownloader"
               /\ P[2].Arguments["filename"] =
                     <<"%NAME%", "-", "%version%", ".", facts["download_format"]>>
               /\ keys["Input"]["NAME"] = facts["app_name"]
               /\ P[3] = [Processor |-> "EndOfCheckPhase"]
               /\ DOMAIN P[1].Arguments =
                     {"appcast_url"}
                        \cup (IF ua THEN {"appcast_request_headers.user-agent"} ELSE {})
               /\ DOMAIN P[2].Arguments =
                     {"filename"} \cup (IF ua THEN {"request_headers.user-agent"} ELSE {})
               /\ ua => /\ P[1].Arguments["appcast_request_headers.user-agent"]
                              = facts["user-agent"]
                         /\ P[2].Arguments["request_headers.user-agent"]
                              = facts["user-agent"]

C18_Witness ==
    /\ DownloadCalled /\ SparkleNoUrl(facts) /\ NoCodesign(facts)
    /\ pc = "done"
    /\ facts["app_name"] = <<"Foo">>
    /\ facts["download_format"] = "zip"
    /\ Has(facts, "user-agent")
    /\ Len(recipes["download"]["keys"]["Process"]) = 3

\* an image download with a requirement string, versioned by the short
\* version key
SignedImageShortVersion(f) ==
    /\ f["download_format"] \in SUPPORTED_IMAGE_FORMATS
    /\ HasCodesignReqs(f)
    /\ f["version_key"] = "CFBundleShortVersionString"

\* in Process P no versioner step comes before a CodeSignatureVerifier step
VersionersAfterVerifier(P) ==
    \A j, k \in 1..Len(P) :
        (/\ P[j].Processor = "CodeSignatureVerifier"
         /\ P[k].Processor \in {"AppDmgVersioner", "Versioner"}) => j < k

\* Process P ends with CodeSignatureVerifier followed by AppDmgVersioner
EndsWithVerifierVersioner(P) ==
    /\ Len(P) >= 2
    /\ P[Len(P) - 1].Processor = "CodeSignatureVerifier"
    /\ P[Len(P)].Processor = "AppDmgVersioner"

\* C19 (as stated): after generate_download_recipe on an image download with a
\* non-empty codesign_reqs and the short version key, Process ends with
\* CodeSignatureVerifier immediately followed by AppDmgVersioner; and in no
\* download Process a versioner comes before the CodeSignatureVerifier.
C19_VerifierThenVersioner ==
    DownloadCalled
        => LET P == recipes["download"]["keys"]["Process"]
           IN  /\ SignedImageShortVersion(facts) => EndsWithVerifierVersioner(P)
               /\ VersionersAfterVerifier(P)

\* C19 (amended): on these facts Process ends with CodeSignatureVerifier
\* immediately followed by AppDmgVersioner when sparkle_provides_version is
\* missing or false, and with CodeSignatureVerifier when it is true; and in
\* no download Process a versioner comes before the CodeSignatureVerifier.
C19_VerifierThenVersionerUnlessSparkle ==
    DownloadCalled
        => LET P == recipes["download"]["keys"]["Process"]
           IN  /\ SignedImageShortVersion(facts)
                    => IF NoSparkleVersion(facts)
                       THEN EndsWithVerifierVersioner(P)
                       ELSE /\ Len(P) >= 1
                            /\ P[Len(P)].Processor = "CodeSignatureVerifier"
                            /\ \A k \in 1..Len(P) :
                                  P[k].Processor \notin {"AppDmgVersioner", "Versioner"}
               /\ VersionersAfterVerifier(P)

C19_Witness ==
    /\ DownloadCalled
    /\ pc = "done"
    /\ SignedImageShortVersion(facts)
    /\ NoSparkleVersion(facts)
    /\ EndsWithVerifierVersioner(recipes["download"]["keys"]["Process"])

\* generate_munki_recipe was called in this run, after the download function
MunkiCalled ==
    entry = "rules" /\ Len(calls) = 2 /\ calls[2].func = BaseRule("munki")

\* C20: after generate_munki_recipe on an installer package download with a
\* non-empty blocking_applications fact, Input.pkginfo.blocking_applications
\* is the fact's value and Process has no Unarchiver and no DmgCreator step;
\* after it on an image or archive download, pkginfo has no
\* blocking_applications key.
C20_BlockingApplicationsForPkgOnly ==
    MunkiCalled
        => LET keys == recipes["munki"]["keys"]
               P == keys["Process"]
               fmt == facts["download_format"]
           IN  /\ (/\ fmt \in SUPPORTED_INSTALL_FORMATS
                    /\ Get(facts, "blocking_applications", <<>>) # <<>>)
                     => /\ Has(keys["Input"], "pkginfo.blocking_applications")
                        /\ keys["Input"]["pkginfo.blocking_applications"]
                              = facts["blocking_applications"]
                        /\ \A k \in 1..Len(P) :
                              P[k].Processor \notin {"Unarchiver", "DmgCreator"}
               /\ fmt \in SUPPORTED_IMAGE_FORMATS \cup SUPPORTED_ARCHIVE_FORMATS
                     => ~Has(keys["Input"], "pkginfo.blocking_applications")

C20_Witness ==
    /\ MunkiCalled
    /\ pc = "done"
    /\ facts["download_format"] \in SUPPORTED_INSTALL_FORMATS
    /\ Get(facts, "blocking_applications", <<>>) # <<>>
    /\ Has(recipes["munki"]["keys"]["Input"], "pkginfo.blocking_applications")
    /\ Len(recipes["munki"]["keys"]["Process"]) >= 1

\* the info provider of each download source, "" for the direct URL
InfoProvider ==
    [sparkle_feed   |-> "SparkleUpdateInfoProvider",
     github_repo    |-> "GitHubReleasesInfoProvider",
     sourceforge_id |-> "SourceForgeURLProvider",
     download_url   |-> ""]

\* the source the elif chain of lines 212-281 selects
FirstSource(f) ==
    IF Has(f, "sparkle_feed") THEN "sparkle_feed"
    ELSE IF Has(f, "github_repo") THEN "github_repo"
    ELSE IF Has(f, "sourceforge_id") THEN "sourceforge_id"
    ELSE "download_url"

\* the positions of the steps of Process P whose processor is in names
StepsOf(P, names) == {k \in 1..Len(P) : P[k].Processor \in names}

\* C21: after generate_download_recipe on facts of an app that is not from the
\* App Store, Process starts with the steps of the first source present in
\* the order Sparkle feed, GitHub repo, SourceForge id, direct URL and has no
\* step of another source; it has exactly one URLDownloader and exactly one
\* EndOfCheckPhase, which directly follows the URLDownloader; and every
\* CodeSignatureVerifier, Unarchiver and versioner step comes after
\* EndOfCheckPhase.
C21_SourcePriority ==
    (DownloadCalled /\ facts["is_from_app_store"] = FALSE)
        => LET P == recipes["download"]["keys"]["Process"]
               src == FirstSource(facts)
               n == IF src = "download_url" THEN 1 ELSE 2
           IN  /\ Len(P) >= n + 1
               /\ src # "download_url" => P[1].Processor = InfoProvider[src]
               /\ StepsOf(P, {InfoProvider[k] : k \in SourceKeys} \ {""})
                     = (IF src = "download_url" THEN {} ELSE {1})
               /\ StepsOf(P, {"URLDownloader"}) = {n}
               /\ Has(P[n].Arguments, "url") <=> src = "download_url"
               /\ StepsOf(P, {"EndOfCheckPhase"}) = {n + 1}
               /\ \A k \in StepsOf(P, {"CodeSignatureVerifier", "Unarchiver",
                                         "Versioner", "AppDmgVersioner"}) : k > n + 1

C21_Witness ==
    /\ DownloadCalled
    /\ pc = "done"
    /\ SourceKeys \subseteq DOMAIN facts
    /\ Len(recipes["download"]["keys"]["Process"]) > 3
    /\ recipes["download"]["keys"]["Process"][1].Processor = "SparkleUpdateInfoProvider"

\* the facts are signed: the condition of line 310
Signed(f) == HasCodesignReqs(f) \/ Get(f, "codesign_authorities", <<>>) # <<>>

\* C22: after generate_download_recipe, the steps after EndOfCheckPhase are:
\* none for unsigned facts; for signed facts and an archive, Unarchiver,
\* CodeSignatureVerifier and a Versioner exactly when
\* sparkle_provides_version is false or missing; for signed facts and an
\* installer package, one CodeSignatureVerifier on %pathname%; and for images
\* and archives the verifier carries the requirement when codesign_reqs is
\* non-empty and the expected authorities otherwise.
C22_SignedStepsAfterCheckPhase ==
    (DownloadCalled /\ facts["is_from_app_store"] = FALSE)
        => LET P == recipes["download"]["keys"]["Process"]
               e == CHOOSE k \in 1..Len(P) : P[k].Processor = "EndOfCheckPhase"
               T == SubSeq(P, e + 1, Len(P))
               fmt == facts["download_format"]
           IN  /\ ~Signed(facts) => T = <<>>
               /\ (Signed(facts) /\ fmt \in SUPPORTED_ARCHIVE_FORMATS)
                     => /\ Len(T) = (IF NoSparkleVersion(facts) THEN 3 ELSE 2)
                        /\ T[1].Processor = "Unarchiver"
                        /\ T[2].Processor = "CodeSignatureVerifier"
                        /\ NoSparkleVersion(facts) => T[3].Processor = "Versioner"
               /\ (Signed(facts) /\ fmt \in SUPPORTED_INSTALL_FORMATS)
                     => /\ Len(T) = 1
                        /\ T[1].Processor = "CodeSignatureVerifier"
                        /\ T[1].Arguments["input_path"] = <<"%pathname%">>
               /\ (Signed(facts)
                      /\ fmt \in SUPPORTED_IMAGE_FORMATS \cup SUPPORTED_ARCHIVE_FORMATS)
                     => \A k \in StepsOf(T, {"CodeSignatureVerifier"}) :
                           IF HasCodesignReqs(facts)
                           THEN /\ DOMAIN T[k].Arguments = {"input_path", "requirement"}
                                /\ T[k].Arguments["requirement"] = facts["codesign_reqs"]
                           ELSE /\ DOMAIN T[k].Arguments
                                      = {"input_path", "expected_authorities"}
                                /\ T[k].Arguments["expected_authorities"]
                                      = facts["codesign_authorities"]

\* C23: after generate_munki_recipe, Process ends with its only MunkiImporter
\* step; a MunkiPkginfoMerger step is present exactly when version_key is not
\* CFBundleShortVersionString and is then the step before the importer,
\* which carries version_comparison_key = version_key then and no such key
\* otherwise; the importer's pkg_path is %dmg_path% exactly when Process has
\* a DmgCreator step, which is the case for archive downloads, and %pathname%
\* otherwise.
C23_MunkiImporterLast ==
    MunkiCalled
        => LET P == recipes["munki"]["keys"]["Process"]
               n == Len(P)
               short == facts["version_key"] = "CFBundleShortVersionString"
           IN  /\ n >= 1
               /\ StepsOf(P, {"MunkiImporter"}) = {n}
               /\ StepsOf(P, {"MunkiPkginfoMerger"}) = (IF short THEN {} ELSE {n - 1})
               /\ IF short
                  THEN ~Has(P[n].Arguments, "version_comparison_key")
                  ELSE /\ Has(P[n].Arguments, "version_comparison_key")
                       /\ P[n].Arguments["version_comparison_key"] = <<facts["version_key"]>>
               /\ P[n].Arguments["pkg_path"] =
                     IF StepsOf(P, {"DmgCreator"}) # {}
                     THEN <<"%dmg_path%">> ELSE <<"%pathname%">>
               /\ StepsOf(P, {"DmgCreator"}) # {}
                     <=> facts["download_format"] \in SUPPORTED_ARCHIVE_FORMATS

\* C24: after generate_pkg_recipe on facts with bundle_id: for an installer
\* package exactly one warning was appended, the function returned and
\* Process is empty; for an image or archive Process ends with its only
\* PkgCreator step, and for an image it has PkgRootCreator directly followed
\* by Copier, both before PkgCreator.
C24_PkgCreatorLast ==
    \A i \in 1..Len(calls) :
        (calls[i].func = BaseRule("pkg") /\ Has(facts, "bundle_id"))
            => LET P == recipes["pkg"]["keys"]["Process"]
                   fmt == facts["download_format"]
               IN  IF fmt \in SUPPORTED_INSTALL_FORMATS
                   THEN /\ calls[i].warnings = 1
                        /\ calls[i].raised = "none"
                        /\ P = <<>>
                   ELSE /\ Len(P) >= 1
                        /\ StepsOf(P, {"PkgCreator"}) = {Len(P)}
                        /\ fmt \in SUPPORTED_IMAGE_FORMATS
                              => \E k \in 1..(Len(P) - 2) :
                                    /\ StepsOf(P, {"PkgRootCreator"}) = {k}
                                    /\ StepsOf(P, {"Copier"}) = {k + 1}

\* generate_download_recipe and then the base function of munki, pkg, install
\* or filewave were called on an archive download, and the second one did
\* not skip its recipe for a missing bundle_id
ArchiveChainCalled ==
    /\ entry = "rules"
    /\ Len(calls) = 2
    /\ calls[1].func = BaseRule("download")
    /\ calls[2].type \in {"munki", "pkg", "install", "filewave"}
    /\ calls[2].func = BaseRule(calls[2].type)
    /\ calls[2].type \in {"pkg", "filewave"} => Has(facts, "bundle_id")
    /\ facts["download_format"] \in SUPPORTED_ARCHIVE_FORMATS

\* C25: after the download function and the base munki, pkg, install or
\* filewave function ran on an archive download, the two Process lists
\* together hold exactly one Unarchiver step: in the download recipe when
\* the facts are signed, in the child recipe when they are not.
C25_UnarchiverOnce ==
    ArchiveChainCalled
        => LET D == StepsOf(recipes["download"]["keys"]["Process"], {"Unarchiver"})
               X == StepsOf(recipes[calls[2].type]["keys"]["Process"], {"Unarchiver"})
           IN  IF Signed(facts)
               THEN Cardinality(D) = 1 /\ X = {}
               ELSE D = {} /\ Cardinality(X) = 1

C25_Witness ==
    /\ ArchiveChainCalled
    /\ pc = "done"
    /\ calls[2].type = "install"
    /\ Signed(facts)
    /\ ~HasCodesignReqs(facts)
    /\ StepsOf(recipes["download"]["keys"]["Process"], {"Unarchiver"}) # {}
    /\ Len(recipes["install"]["keys"]["Process"]) = 2

====
